---------------------------- MODULE Spec2Model ----------------------------
(***************************************************************************)
(* Verification model of the ProxQP engine of proxsuite:                   *)
(*   - Results / Info bookkeeping            (src/unnamed/part_000)        *)
(*   - QP::update of the sparse wrapper      (src/unnamed/part_000)        *)
(*   - RuizEquilibration scale / unscale     (qp/proxqp/solver_sparse.hpp) *)
(*   - sparse qp_solve                       (qp/proxqp/solver_sparse.hpp) *)
(*   - dense qpSolve, BCL_update_fact        (qp/in_solver.hpp)            *)
(*                                                                         *)
(* Numbers of the Results object, the Ruiz equilibration and the sparse    *)
(* solver are IEEE binary64 values with round-to-nearest-even (T =         *)
(* double), so every statement about values is a statement about the       *)
(* doubles the code computes, subnormal numbers included; the sign of a    *)
(* zero is not kept.                                                       *)
(***************************************************************************)
EXTENDS Integers, Sequences, FiniteSets, TLC

VARIABLES
    results,    \* the Results<T> object: x, y, z, active_constraints, info
    last,       \* the Results operation that last completed, with its arguments
    ruiz,       \* the RuizEquilibration object: delta, n, c
    vec,        \* a vector handed to a scale_* / unscale_* operation (in place)
    sc,         \* which operation pair acts on vec, how far it got, the input
    model,      \* the stored (unscaled) QP model of the sparse wrapper QP<T, I>
    call,       \* the update() call that last returned: arguments, matrices before
    dn,         \* the locals of a run of the dense qpSolve, and where it stands
    sp          \* the locals of a run of the sparse qp_solve, and where it stands

resultsVars == <<results, last>>
scaleVars == <<ruiz, vec, sc>>
updateVars == <<model, call>>
denseVars == <<dn>>
sparseVars == <<sp>>
vars == <<resultsVars, scaleVars, updateVars, denseVars, sparseVars>>

\* values of the variables a specification does not use
Idle == "idle"
ResultsIdle == results = Idle /\ last = Idle
ScaleIdle == ruiz = Idle /\ vec = Idle /\ sc = Idle
UpdateIdle == model = Idle /\ call = Idle
DenseIdle == dn = Idle
SparseIdle == sp = Idle

\* what the operations of one object leave alone
ResultsFrame == UNCHANGED <<scaleVars, updateVars, denseVars, sparseVars>>
ScaleFrame == UNCHANGED <<ruiz, resultsVars, updateVars, denseVars, sparseVars>>
UpdateFrame == UNCHANGED <<resultsVars, scaleVars, denseVars, sparseVars>>
DenseFrame == UNCHANGED <<resultsVars, scaleVars, updateVars, sparseVars>>
SparseFrame == UNCHANGED <<resultsVars, scaleVars, updateVars, denseVars>>

(***************************************************************************)
(* Arithmetic of T = double (IEEE 754 binary64, round to nearest, ties to  *)
(* even).  A number is <<s, e, h, l>> with the sign s in {1, -1} and the   *)
(* value s * (h * 2^28 + l) * 2^e, the 53-bit mantissa held in two limbs   *)
(* (2^24 <= h < 2^25, 0 <= l < 2^28); a subnormal number has e = -1074 and *)
(* h < 2^24; zero is <<1, 0, 0, 0>>, the infinities and NaN have the       *)
(* exponents ExpInf and ExpNaN.  Every operation computes the correctly    *)
(* rounded result of the real operation.                                   *)
(***************************************************************************)

Abs(i) == IF i < 0 THEN -i ELSE i

\* the one element of a set that has one element; { e(v) : v \in {x} } names
\* the value x as v, so that e uses it without computing x again
The(S) == CHOOSE r \in S : TRUE

B14 == 16384
B28 == 268435456
ExpInf == 2000
ExpNaN == 3000
Zero == <<1, 0, 0, 0>>
NaN == <<1, ExpNaN, 0, 0>>
Inf(s) == <<s, ExpInf, 0, 0>>
IsZero(a) == a[3] = 0 /\ a[2] = 0

\* the number of bits of n, 0 < n < 2^29
BitLen(n) ==
    IF n >= 32768
    THEN IF n >= 4194304
         THEN IF n >= 33554432
              THEN IF n >= 134217728 THEN (IF n >= 268435456 THEN 29 ELSE 28)
                   ELSE (IF n >= 67108864 THEN 27 ELSE 26)
              ELSE IF n >= 16777216 THEN 25 ELSE (IF n >= 8388608 THEN 24 ELSE 23)
         ELSE IF n >= 262144
              THEN IF n >= 1048576 THEN (IF n >= 2097152 THEN 22 ELSE 21)
                   ELSE (IF n >= 524288 THEN 20 ELSE 19)
              ELSE IF n >= 131072 THEN 18 ELSE (IF n >= 65536 THEN 17 ELSE 16)
    ELSE IF n >= 128
         THEN IF n >= 2048
              THEN IF n >= 8192 THEN (IF n >= 16384 THEN 15 ELSE 14)
                   ELSE (IF n >= 4096 THEN 13 ELSE 12)
              ELSE IF n >= 512 THEN (IF n >= 1024 THEN 11 ELSE 10)
                   ELSE (IF n >= 256 THEN 9 ELSE 8)
         ELSE IF n >= 8
              THEN IF n >= 32 THEN (IF n >= 64 THEN 7 ELSE 6) ELSE (IF n >= 16 THEN 5 ELSE 4)
              ELSE IF n >= 2 THEN (IF n >= 4 THEN 3 ELSE 2) ELSE n

\* A wide number <<s, e, H, L>> is s * (H * 2^28 + L) * 2^e before it is
\* rounded: 56 bits and more of the exact result, the bits below them kept
\* as a sticky last bit of L
Sticky(v, lost) == IF lost # 0 /\ v % 2 = 0 THEN v + 1 ELSE v
\* the carry of L goes to H; 57 bits are shifted right by one, H = 0 moves L up
Norm1(w) ==
    IF w[2] >= ExpInf THEN w
    ELSE IF w[3] + w[4] \div B28 >= B28
    THEN <<w[1], w[2] + 1, (w[3] + w[4] \div B28) \div 2,
           Sticky(((w[4] % B28) \div 2) + ((w[3] + w[4] \div B28) % 2) * 134217728,
                  w[4] % 2)>>
    ELSE IF w[3] + w[4] \div B28 = 0 THEN <<w[1], w[2] - 28, w[4] % B28, 0>>
    ELSE <<w[1], w[2], w[3] + w[4] \div B28, w[4] % B28>>
\* the leading bit is brought to bit 55
ShiftLeft(n, k) ==
    <<n[1], n[2] - k, n[3] * 2^k + n[4] \div 2^(28 - k), (n[4] % 2^(28 - k)) * 2^k>>
Norm2(n) ==
    IF n[2] >= ExpInf \/ n[3] = 0 THEN n ELSE ShiftLeft(n, 28 - BitLen(n[3]))
\* 56 bits to 53, to nearest, ties to even
RoundsUp(n) == n[4] % 8 > 4 \/ (n[4] % 8 = 4 /\ (n[4] \div 8) % 2 = 1)
RoundInc(n) ==
    <<n[1], n[2] + 3, n[3] \div 8,
      (n[4] \div 8) + (n[3] % 8) * 33554432 + (IF RoundsUp(n) THEN 1 ELSE 0)>>
Carry(m) ==
    IF m[4] < B28 THEN m
    ELSE IF m[3] + 1 < 33554432 THEN <<m[1], m[2], m[3] + 1, 0>>
    ELSE <<m[1], m[2] + 1, 16777216, 0>>
\* H * 2^28 + L shifted right by d bits, the lost bits kept in a sticky bit
ShrH(H, d) == IF d >= 28 THEN 0 ELSE H \div 2^d
ShrL(H, L, d) ==
    IF d = 0 THEN L
    ELSE IF d < 28 THEN Sticky((L \div 2^d) + (H % 2^d) * 2^(28 - d), L % 2^d)
    ELSE IF d < 56 THEN Sticky(H \div 2^(d - 28), (H % 2^(d - 28)) + L)
    ELSE 1
\* gradual underflow: the last place of a result below 2^-1022 is 2^-1074,
\* the bits under it are shifted out before the rounding
Subnormal(n) ==
    IF n[2] >= -1077 \/ n[3] = 0 THEN n
    ELSE <<n[1], -1077, ShrH(n[3], -1077 - n[2]), ShrL(n[3], n[4], -1077 - n[2])>>
\* overflow gives an infinity
Range(c) ==
    IF c[2] >= ExpInf THEN c
    ELSE IF c[3] = 0 /\ c[4] = 0 THEN Zero
    ELSE IF c[2] > 971 THEN Inf(c[1])
    ELSE c
RoundStep(n) ==
    IF n[2] >= ExpInf \/ (n[3] = 0 /\ n[4] = 0) THEN n ELSE Carry(RoundInc(n))
\* the doubles the wide numbers in W round to
FRound(W) ==
    { Range(c)
      : c \in { RoundStep(n3)
                : n3 \in { Subnormal(n2)
                           : n2 \in { Norm2(n1) : n1 \in { Norm1(w) : w \in W } } } } }

\* the mantissa of a, times 8, as two limbs of 28 bits
WideH(a) == a[3] * 8 + a[4] \div 33554432
WideL(a) == (a[4] % 33554432) * 8
Wide(a) == <<a[1], a[2] - 3, WideH(a), WideL(a)>>
\* a subnormal number with its leading bit brought to bit 52, the exponent
\* going below -1074: the operand of a product, a quotient, a square root
Normal(a) ==
    IF a[3] >= 16777216 \/ a[2] # -1074 THEN a
    ELSE IF a[3] # 0 THEN ShiftLeft(a, 25 - BitLen(a[3]))
    ELSE IF BitLen(a[4]) >= 25
    THEN <<a[1], a[2] - 53 + BitLen(a[4]), a[4] \div 2^(BitLen(a[4]) - 25),
           (a[4] % 2^(BitLen(a[4]) - 25)) * 2^(53 - BitLen(a[4]))>>
    ELSE <<a[1], a[2] - 53 + BitLen(a[4]), a[4] * 2^(25 - BitLen(a[4])), 0>>

MagLe(a, b) ==
    \/ a[2] < b[2]
    \/ a[2] = b[2] /\ (a[3] < b[3] \/ (a[3] = b[3] /\ a[4] <= b[4]))

\* |x| >= |y| > 0, d the difference of the exponents, sg = 1 for a sum of
\* the magnitudes and -1 for a difference
AddAligned(x, y, d, sg) ==
    <<x[1], x[2] - 3, WideH(x) + sg * ShrH(WideH(y), d),
      WideL(x) + sg * ShrL(WideH(y), WideL(y), d)>>
AddSpecial(a, b) ==
    IF a[2] = ExpNaN \/ b[2] = ExpNaN THEN NaN
    ELSE IF a[2] = ExpInf /\ b[2] = ExpInf THEN (IF a[1] = b[1] THEN a ELSE NaN)
    ELSE IF a[2] = ExpInf THEN a ELSE b
AddWide(a, b) ==
    IF a[2] >= ExpInf \/ b[2] >= ExpInf THEN AddSpecial(a, b)
    ELSE IF b[3] = 0 /\ b[4] = 0 THEN Wide(a)
    ELSE IF a[3] = 0 /\ a[4] = 0 THEN Wide(b)
    ELSE IF MagLe(b, a) THEN AddAligned(a, b, a[2] - b[2], a[1] * b[1])
    ELSE AddAligned(b, a, b[2] - a[2], a[1] * b[1])
RAdd(a, b) == CHOOSE r \in FRound({AddWide(p[1], p[2]) : p \in {<<a, b>>}}) : TRUE

RNeg(a) ==
    The({ IF v[3] = 0 /\ v[4] = 0 THEN (IF v[2] = ExpInf THEN Inf(-v[1]) ELSE v)
          ELSE <<-v[1], v[2], v[3], v[4]>> : v \in {a} })
RSub(a, b) == RAdd(a, RNeg(b))

\* the limbs of 14 bits of the mantissas of a and b, lowest first
MulLimbs(a, b) ==
    <<a[4] % B14, a[4] \div B14, a[3] % B14, a[3] \div B14,
      b[4] % B14, b[4] \div B14, b[3] % B14, b[3] \div B14>>
\* the columns of the product, without the carries
MulCols(m) ==
    <<m[1] * m[5],
      m[1] * m[6] + m[2] * m[5],
      m[1] * m[7] + m[2] * m[6] + m[3] * m[5],
      m[1] * m[8] + m[2] * m[7] + m[3] * m[6] + m[4] * m[5],
      m[2] * m[8] + m[3] * m[7] + m[4] * m[6],
      m[3] * m[8] + m[4] * m[7],
      m[4] * m[8]>>
\* the product in limbs of 28 bits, each with the carry it hands on
MulW0(c) == c[1] + (c[2] % B14) * B14
MulW1(c) == c[2] \div B14 + c[3] + (c[4] % B14) * B14 + MulW0(c) \div B28
MulW2(c) == c[4] \div B14 + c[5] + (c[6] % B14) * B14 + MulW1(c) \div B28
MulW3(c) == c[6] \div B14 + c[7] + MulW2(c) \div B28
\* the upper 56 bits of the 106
MulTop(s, e, v) ==
    <<s, e, v[4] * 64 + (v[3] % B28) \div 4194304,
      Sticky((v[3] % 4194304) * 64 + (v[2] % B28) \div 4194304,
             (v[2] % 4194304) + (v[1] % B28))>>
MulSpecial(a, b) ==
    IF a[2] = ExpNaN \/ b[2] = ExpNaN THEN NaN
    ELSE IF IsZero(a) \/ IsZero(b) THEN NaN
    ELSE Inf(a[1] * b[1])
MulWide(a, b) ==
    IF a[2] >= ExpInf \/ b[2] >= ExpInf THEN MulSpecial(a, b)
    ELSE IF a[3] = 0 \/ b[3] = 0 THEN Zero
    ELSE CHOOSE w \in
           { MulTop(a[1] * b[1], a[2] + b[2] + 50, v)
             : v \in { <<MulW0(c), MulW1(c), MulW2(c), MulW3(c)>>
                       : c \in { MulCols(m) : m \in {MulLimbs(a, b)} } } } : TRUE
RMul(a, b) ==
    CHOOSE r \in FRound({MulWide(Normal(p[1]), Normal(p[2])) : p \in {<<a, b>>}}) : TRUE

\* the quotient of two mantissas in digits of 14 bits.  The divisor is
\* bh * 2^28 + bl with bh >= 2^27, the remainder rh * 2^28 + rl is below it.
\* r * 2^14 - q * b for the trial digit q, limb by limb with the carries:
\* <<q, high, low>>, negative when q is too large
DivF0(q, bl) == 0 - q * (bl % B14)
DivF1(q, rl, bl) == (rl % B14) - q * (bl \div B14) + (DivF0(q, bl) \div B14)
DivF2(q, rl, bh, bl) == (rl \div B14) - q * (bh % B14) + (DivF1(q, rl, bl) \div B14)
DivF3(q, rh, rl, bh, bl) == rh - q * (bh \div B14) + (DivF2(q, rl, bh, bl) \div B14)
DivSub(q, rh, rl, bh, bl) ==
    <<q,
      DivF3(q, rh, rl, bh, bl) * B14 + (DivF2(q, rl, bh, bl) % B14),
      (DivF1(q, rl, bl) % B14) * B14 + (DivF0(q, bl) % B14)>>
\* the trial digit is at most two too large
AddBack(t, bh, bl) ==
    IF t[2] >= 0 THEN t
    ELSE IF t[2] + bh + (t[3] + bl) \div B28 >= 0
    THEN <<t[1] - 1, t[2] + bh + (t[3] + bl) \div B28, (t[3] + bl) % B28>>
    ELSE <<t[1] - 2, t[2] + 2 * bh + (t[3] + 2 * bl) \div B28, (t[3] + 2 * bl) % B28>>
TrialDigit(rh, b3) == IF rh \div b3 >= B14 THEN B14 - 1 ELSE rh \div b3
\* st = <<quotient (two limbs), remainder (two limbs)>>: k more digits
RECURSIVE DivDigits(_, _, _, _)
DivDigits(k, st, bh, bl) ==
    IF k = 0 THEN st
    ELSE CHOOSE r \in
           { DivDigits(k - 1,
                       <<st[1] * B14 + st[2] \div B14, (st[2] % B14) * B14 + t[1],
                         t[2], t[3]>>, bh, bl)
             : t \in { AddBack(u, bh, bl)
                       : u \in {DivSub(TrialDigit(st[3], bh \div B14),
                                       st[3], st[4], bh, bl)} } } : TRUE
\* the first bit of the quotient and the remainder it leaves
DivFirst(ah, al, bh, bl) ==
    IF ah > bh \/ (ah = bh /\ al >= bl)
    THEN IF al >= bl THEN <<0, 1, ah - bh, al - bl>> ELSE <<0, 1, ah - bh - 1, al - bl + B28>>
    ELSE <<0, 0, ah, al>>
DivSpecial(a, b) ==
    IF a[2] = ExpNaN \/ b[2] = ExpNaN THEN NaN
    ELSE IF a[2] = ExpInf THEN (IF b[2] = ExpInf THEN NaN ELSE Inf(a[1] * b[1]))
    ELSE IF b[2] = ExpInf THEN Zero
    ELSE IF a[3] = 0 THEN NaN
    ELSE Inf(a[1] * b[1])
DivWide(a, b) ==
    IF a[2] >= ExpInf \/ b[2] >= ExpInf \/ b[3] = 0 THEN DivSpecial(a, b)
    ELSE IF a[3] = 0 THEN Zero
    ELSE IF a[2] - b[2] > 1100 THEN Inf(a[1] * b[1])
    ELSE CHOOSE w \in
           { <<a[1] * b[1], a[2] - b[2] - 56, st[1], Sticky(st[2], st[3] + st[4])>>
             : st \in { DivDigits(4, f, WideH(b), WideL(b))
                        : f \in {DivFirst(WideH(a), WideL(a), WideH(b), WideL(b))} } } : TRUE
RDiv(a, b) ==
    CHOOSE r \in FRound({DivWide(Normal(p[1]), Normal(p[2])) : p \in {<<a, b>>}}) : TRUE
RInv(a) == RDiv(<<1, -52, 16777216, 0>>, a)

\* the square root digit by digit: st = <<root (two limbs of 28 bits),
\* remainder (the high limb below 2^31), what is left of the radicand>>;
\* a step takes the next two bits of the radicand
SqrtRemH(st) == 4 * st[3] + (4 * st[4] + st[5] \div 16777216) \div B28
SqrtRemL(st) == (4 * st[4] + st[5] \div 16777216) % B28
SqrtTryH(st) == 4 * st[1] + (4 * st[2] + 1) \div B28
SqrtTryL(st) == (4 * st[2] + 1) % B28
SqrtBit(st) ==
    IF SqrtRemH(st) > SqrtTryH(st)
         \/ (SqrtRemH(st) = SqrtTryH(st) /\ SqrtRemL(st) >= SqrtTryL(st))
    THEN <<2 * st[1] + (2 * st[2] + 1) \div B28, (2 * st[2] + 1) % B28,
           SqrtRemH(st) - SqrtTryH(st) - (IF SqrtRemL(st) >= SqrtTryL(st) THEN 0 ELSE 1),
           SqrtRemL(st) - SqrtTryL(st) + (IF SqrtRemL(st) >= SqrtTryL(st) THEN 0 ELSE B28),
           (st[5] % 16777216) * 4 + st[6] \div 67108864, (st[6] % 67108864) * 4>>
    ELSE <<2 * st[1] + (2 * st[2]) \div B28, (2 * st[2]) % B28,
           SqrtRemH(st), SqrtRemL(st),
           (st[5] % 16777216) * 4 + st[6] \div 67108864, (st[6] % 67108864) * 4>>
RECURSIVE SqrtBits(_, _)
SqrtBits(k, st) ==
    IF k = 0 THEN st
    ELSE CHOOSE r \in {SqrtBits(k - 1, t) : t \in {SqrtBit(st)}} : TRUE
\* k times eight steps
RECURSIVE SqrtBytes(_, _)
SqrtBytes(k, st) ==
    IF k = 0 THEN st
    ELSE CHOOSE r \in {SqrtBytes(k - 1, t) : t \in {SqrtBits(8, st)}} : TRUE
\* the radicand mh * 2^28 + ml below 2^54, times 2^(2 * e2)
SqrtRoot(e2, mh, ml) ==
    CHOOSE w \in { <<1, e2 - 29, st[1], Sticky(st[2], st[3] + st[4])>>
                   : st \in {SqrtBytes(7, <<0, 0, 0, 0, mh, ml>>)} } : TRUE
SqrtWide(a) ==
    IF a[2] = ExpNaN THEN NaN
    ELSE IF a[3] = 0 /\ a[2] = 0 THEN Zero
    ELSE IF a[1] = -1 THEN NaN
    ELSE IF a[2] = ExpInf THEN a
    ELSE IF a[2] % 2 = 0 THEN SqrtRoot(a[2] \div 2, a[3], a[4])
    ELSE SqrtRoot((a[2] - 1) \div 2, 2 * a[3] + a[4] \div 134217728,
                  (a[4] % 134217728) * 2)
RSqrt(a) == CHOOSE r \in FRound({SqrtWide(Normal(p)) : p \in {a}}) : TRUE

\* the integer n as a double, 0 < |n| < 2^31
FromInt(s, n, k) ==
    IF k >= 28 THEN <<s, -k, n * 2^(k - 28), 0>>
    ELSE <<s, -k, n \div 2^(28 - k), (n % 2^(28 - k)) * 2^k>>
BitLen31(n) == IF n >= 268435456 THEN 28 + BitLen(n \div 268435456) ELSE BitLen(n)
Q(n) == IF n = 0 THEN Zero
        ELSE FromInt(IF n < 0 THEN -1 ELSE 1, Abs(n), 53 - BitLen31(Abs(n)))
\* the literal p/q as the compiler reads it: the double nearest to it
R(p, q) == RDiv(Q(p), Q(q))
One == <<1, -52, 16777216, 0>>

\* a <= b and a < b on two numbers; a comparison with a NaN is false
LessEq(a, b) ==
    IF a[2] = ExpNaN \/ b[2] = ExpNaN THEN FALSE
    ELSE IF a[3] = 0 /\ a[2] = 0 THEN b[1] = 1
    ELSE IF b[3] = 0 /\ b[2] = 0 THEN a[1] = -1
    ELSE IF a[1] # b[1] THEN a[1] < b[1]
    ELSE IF a[1] = 1 THEN MagLe(a, b) ELSE MagLe(b, a)
RLe(a, b) == \E p \in {<<a, b>>} : LessEq(p[1], p[2])
RLt(a, b) ==
    \E p \in {<<a, b>>} :
        p[1][2] # ExpNaN /\ p[2][2] # ExpNaN /\ ~LessEq(p[2], p[1])
RAbs(a) == The({ <<1, v[2], v[3], v[4]>> : v \in {a} })
\* std::max(a, b) is (a < b) ? b : a, std::min(a, b) is (b < a) ? b : a
RMax(a, b) == The({ IF RLt(p[1], p[2]) THEN p[2] ELSE p[1] : p \in {<<a, b>>} })
RMin(a, b) == The({ IF RLt(p[2], p[1]) THEN p[2] ELSE p[1] : p \in {<<a, b>>} })
\* std::numeric_limits<double>::epsilon(), 2^-52
machine_eps == <<1, -104, 16777216, 0>>

\* pow(x, k) for an integer k >= 0
RECURSIVE RPow(_, _)
RPow(x, k) == IF k = 0 THEN One ELSE RMul(x, RPow(x, k - 1))

\* 10^-k as the literal T(1e-k) is read: the double nearest to it
\* (10^k is a double for k <= 22)
TenToMinus(k) == RDiv(One, RPow(Q(10), k))

\* two evaluations of one vector agree up to their rounding errors: the
\* vectors differ by at most RoundingTol * max(1, |fresh|) in every entry
RoundingTol == TenToMinus(12)
AgreeUpToRounding(cached, fresh) ==
    /\ Len(cached) = Len(fresh)
    /\ \A i \in 1..Len(cached) :
          RLe(RAbs(RSub(cached[i], fresh[i])),
              RMul(RoundingTol, RMax(One, RAbs(fresh[i]))))

\* vectors are sequences of numbers
ZeroVec(k) == [i \in 1..k |-> Zero]


(***************************************************************************)
(* Results<T> and Info<T>   (results.hpp, src/unnamed/part_000:25-168)     *)
(***************************************************************************)
\* std::optional<T>: nullopt is <<>>, a held value v is <<v>>
NullOpt == <<>>
Some(v) == <<v>>
HasValue(o) == o # NullOpt
Value(o) == o[1]

PROXQP_SOLVED == "PROXQP_SOLVED"
PROXQP_MAX_ITER_REACHED == "PROXQP_MAX_ITER_REACHED"

\* Results(dim, n_eq, n_in): the constructor
ResultsCtor(dim, n_eq, n_in) ==
    [ x |-> ZeroVec(dim),
      y |-> ZeroVec(n_eq),
      z |-> ZeroVec(n_in),
      active_constraints |-> <<>>,
      info |-> [ rho |-> R(1, 1000000),
                 mu_eq_inv |-> R(1000, 1),
                 mu_eq |-> R(1, 1000),
                 mu_in_inv |-> R(10, 1),
                 mu_in |-> R(1, 10),
                 nu |-> One,
                 iter |-> 0,
                 iter_ext |-> 0,
                 mu_updates |-> 0,
                 rho_updates |-> 0,
                 run_time |-> Zero,
                 setup_time |-> Zero,
                 solve_time |-> Zero,
                 objValue |-> Zero,
                 pri_res |-> Zero,
                 dua_res |-> Zero,
                 status |-> PROXQP_MAX_ITER_REACHED ] ]

\* a cleanup_statistics() that forgets to reset the status
cleanup_statistics_keeps_status(r) ==
    [r EXCEPT !.info = [@ EXCEPT !.run_time = Zero,
                                 !.setup_time = Zero,
                                 !.solve_time = Zero,
                                 !.objValue = Zero,
                                 !.iter = 0,
                                 !.iter_ext = 0,
                                 !.mu_updates = 0,
                                 !.rho_updates = 0,
                                 !.pri_res = Zero,
                                 !.dua_res = Zero]]

\* Results::cleanup_statistics()
cleanup_statistics(r) ==
    [r EXCEPT !.info = [@ EXCEPT !.run_time = Zero,
                                 !.setup_time = Zero,
                                 !.solve_time = Zero,
                                 !.objValue = Zero,
                                 !.iter = 0,
                                 !.iter_ext = 0,
                                 !.mu_updates = 0,
                                 !.rho_updates = 0,
                                 !.pri_res = Zero,
                                 !.dua_res = Zero,
                                 !.status = PROXQP_MAX_ITER_REACHED]]

\* Results::cold_start(rho, mu_eq, mu_in), each argument a value or nullopt
cold_start(r, rho, mu_eq, mu_in) ==
    LET i0 == r.info
        i1 == [i0 EXCEPT !.rho = IF HasValue(rho) THEN Value(rho) ELSE R(1, 1000000)]
        i2 == IF HasValue(mu_eq)
              THEN [i1 EXCEPT !.mu_eq = Value(mu_eq),
                              !.mu_eq_inv = RDiv(One, Value(mu_eq))]
              ELSE [i1 EXCEPT !.mu_eq_inv = R(1000, 1), !.mu_eq = R(1, 1000)]
        i3 == IF HasValue(mu_in)
              THEN [i2 EXCEPT !.mu_in = Value(mu_in),
                              !.mu_in_inv = RDiv(One, Value(mu_in))]
              ELSE [i2 EXCEPT !.mu_in_inv = R(10, 1), !.mu_in = R(1, 10)]
        i4 == [i3 EXCEPT !.nu = One]
    IN cleanup_statistics([r EXCEPT !.info = i4])

\* Results::cleanup(rho, mu_eq, mu_in)
cleanup(r, rho, mu_eq, mu_in) ==
    cold_start([r EXCEPT !.x = ZeroVec(Len(r.x)),
                         !.y = ZeroVec(Len(r.y)),
                         !.z = ZeroVec(Len(r.z))],
               rho, mu_eq, mu_in)

\* Results::cleanup_all_except_prox_parameters()
cleanup_all_except_prox_parameters(r) ==
    cleanup_statistics([r EXCEPT !.x = ZeroVec(Len(r.x)),
                                 !.y = ZeroVec(Len(r.y)),
                                 !.z = ZeroVec(Len(r.z))])

(* Inputs of the Results specification. *)
ResultsDims == {<<1, 0, 1>>, <<2, 1, 1>>}
OptArgs == {NullOpt, Some(R(5, 2))}
SolutionVals == {R(1, 1), R(-3, 2)}
ProxWrites ==
    { [rho |-> R(1, 10000000), mu_eq |-> R(1, 100000), mu_in |-> R(1, 1000), nu |-> R(2, 1)],
      [rho |-> R(1, 1000000), mu_eq |-> R(1, 1000), mu_in |-> R(1, 100), nu |-> One] }
StatWrites ==
    { [iter |-> 7, iter_ext |-> 2, mu_updates |-> 1, rho_updates |-> 0,
       time |-> R(12, 1), objValue |-> R(-1, 2), pri_res |-> R(1, 1000), dua_res |-> Zero,
       status |-> PROXQP_SOLVED],
      [iter |-> 3, iter_ext |-> 3, mu_updates |-> 0, rho_updates |-> 1,
       time |-> R(5, 1), objValue |-> R(4, 1), pri_res |-> Zero, dua_res |-> R(1, 10),
       status |-> PROXQP_MAX_ITER_REACHED] }

\* the record of a completed operation: its name, its arguments, and whether
\* the object it acted on differed from a constructed one in every group of
\* fields (solution, proximal parameters, statistics, status)
Op(name, rho, mu_eq, mu_in) ==
    LET fresh == ResultsCtor(Len(results.x), Len(results.y), Len(results.z)) IN
    [op |-> name, rho |-> rho, mu_eq |-> mu_eq, mu_in |-> mu_in,
     dirty |-> /\ results.x # fresh.x
               /\ results.info.mu_in # fresh.info.mu_in
               /\ results.info.nu # fresh.info.nu
               /\ results.info.iter # 0
               /\ results.info.status # fresh.info.status]

ResultsInit ==
    /\ \E d \in ResultsDims : results = ResultsCtor(d[1], d[2], d[3])
    /\ last = [op |-> "ctor", rho |-> NullOpt, mu_eq |-> NullOpt, mu_in |-> NullOpt,
               dirty |-> FALSE]
    /\ ScaleIdle
    /\ UpdateIdle
    /\ DenseIdle
    /\ SparseIdle

\* a solver stores a solution in x, y, z and the active set
WriteSolution ==
    /\ \E v \in SolutionVals :
          results' = [results EXCEPT !.x = [i \in 1..Len(results.x) |-> v],
                                     !.y = [i \in 1..Len(results.y) |-> v],
                                     !.z = [i \in 1..Len(results.z) |-> RNeg(v)],
                                     !.active_constraints =
                                         [i \in 1..Len(results.z) |-> TRUE]]
    /\ last' = Op("write", NullOpt, NullOpt, NullOpt)
    /\ ResultsFrame

\* a solver stores its proximal parameters in info
WriteProx ==
    /\ \E w \in ProxWrites :
          results' = [results EXCEPT !.info =
                         [@ EXCEPT !.rho = w.rho,
                                   !.mu_eq = w.mu_eq, !.mu_eq_inv = RDiv(One, w.mu_eq),
                                   !.mu_in = w.mu_in, !.mu_in_inv = RDiv(One, w.mu_in),
                                   !.nu = w.nu]]
    /\ last' = Op("write", NullOpt, NullOpt, NullOpt)
    /\ ResultsFrame

\* a solver stores its statistics and status in info
WriteStatistics ==
    /\ \E w \in StatWrites :
          results' = [results EXCEPT !.info =
                         [@ EXCEPT !.iter = w.iter, !.iter_ext = w.iter_ext,
                                   !.mu_updates = w.mu_updates,
                                   !.rho_updates = w.rho_updates,
                                   !.run_time = w.time, !.setup_time = w.time,
                                   !.solve_time = w.time, !.objValue = w.objValue,
                                   !.pri_res = w.pri_res, !.dua_res = w.dua_res,
                                   !.status = w.status]]
    /\ last' = Op("write", NullOpt, NullOpt, NullOpt)
    /\ ResultsFrame

Cleanup ==
    \E rho \in OptArgs, mu_eq \in OptArgs, mu_in \in OptArgs :
        /\ results' = cleanup(results, rho, mu_eq, mu_in)
        /\ last' = Op("cleanup", rho, mu_eq, mu_in)
        /\ ResultsFrame

ColdStart ==
    \E rho \in OptArgs, mu_eq \in OptArgs, mu_in \in OptArgs :
        /\ results' = cold_start(results, rho, mu_eq, mu_in)
        /\ last' = Op("cold_start", rho, mu_eq, mu_in)
        /\ ResultsFrame

CleanupStatistics ==
    /\ results' = cleanup_statistics(results)
    /\ last' = Op("cleanup_statistics", NullOpt, NullOpt, NullOpt)
    /\ ResultsFrame

CleanupAllExceptProxParameters ==
    /\ results' = cleanup_all_except_prox_parameters(results)
    /\ last' = Op("cleanup_all_except_prox_parameters", NullOpt, NullOpt, NullOpt)
    /\ ResultsFrame

ResultsNext ==
    \/ WriteSolution
    \/ WriteProx
    \/ WriteStatistics
    \/ Cleanup
    \/ ColdStart
    \/ CleanupStatistics
    \/ CleanupAllExceptProxParameters

SpecResults == ResultsInit /\ [][ResultsNext]_vars

\* C10: cleanup() without arguments leaves every field at its constructor
\* value (x, y, z zero, rho = 1e-6, mu_eq = 1e-3 and inverse 1e3, mu_in = 1e-1
\* and inverse 1e1, nu = 1, counters, timings, objValue and residuals 0,
\* status PROXQP_MAX_ITER_REACHED), whatever was written before; cold_start
\* and cleanup called with values store them together with the inverses
\* 1/mu_eq and 1/mu_in.
C10_CleanupRestoresDefaults ==
    /\ (last.op = "cleanup" /\ last.rho = NullOpt /\ last.mu_eq = NullOpt
            /\ last.mu_in = NullOpt)
        => LET fresh == ResultsCtor(Len(results.x), Len(results.y), Len(results.z))
           IN /\ results.x = fresh.x
              /\ results.y = fresh.y
              /\ results.z = fresh.z
              /\ results.info = fresh.info
              /\ results.info.rho = R(1, 1000000)
              /\ results.info.mu_eq = R(1, 1000)
              /\ results.info.mu_eq_inv = Q(1000)
              /\ results.info.mu_in = R(1, 10)
              /\ results.info.mu_in_inv = Q(10)
              /\ results.info.nu = One
              /\ results.info.status = PROXQP_MAX_ITER_REACHED
    /\ (last.op \in {"cleanup", "cold_start"})
        => /\ HasValue(last.rho) => results.info.rho = Value(last.rho)
           /\ HasValue(last.mu_eq) =>
                 /\ results.info.mu_eq = Value(last.mu_eq)
                 /\ results.info.mu_eq_inv = RDiv(One, Value(last.mu_eq))
           /\ HasValue(last.mu_in) =>
                 /\ results.info.mu_in = Value(last.mu_in)
                 /\ results.info.mu_in_inv = RDiv(One, Value(last.mu_in))

\* a cleanup() without arguments of an object holding a solution, changed
\* proximal parameters, statistics and status "solved"
C10_Witness ==
    /\ last.op = "cleanup"
    /\ last.rho = NullOpt /\ last.mu_eq = NullOpt /\ last.mu_in = NullOpt
    /\ last.dirty


(***************************************************************************)
(* RuizEquilibration: the scale / unscale operations                       *)
(* (qp/proxqp/solver_sparse.hpp:358-469).  A preconditioner object is the  *)
(* record [delta, n, c]; a vector is transformed in place.                 *)
(***************************************************************************)
\* Eigen: v.head(k), v.tail(k), v.middleRows(start, k) (start is 0-based)
head(v, k) == SubSeq(v, 1, k)
tail(v, k) == SubSeq(v, Len(v) - k + 1, Len(v))
middleRows(v, start, k) == SubSeq(v, start + 1, start + k)

\* RuizEquilibration(n_, n_eq_in, ...): delta = Ones(n_ + n_eq_in), c = 1
RuizCtor(n_, n_eq_in) ==
    [delta |-> [i \in 1..(n_ + n_eq_in) |-> One], n |-> n_, c |-> One]

scale_primal_in_place(rz, primal) ==
    LET d == head(rz.delta, rz.n) IN
    [i \in 1..Len(primal) |-> RDiv(primal[i], d[i])] \o <<>>

scale_dual_in_place(rz, dual) ==
    LET d == tail(rz.delta, Len(rz.delta) - rz.n) IN
    [i \in 1..Len(dual) |-> RMul(RDiv(dual[i], d[i]), rz.c)] \o <<>>

scale_dual_in_place_eq(rz, dual) ==
    LET d == middleRows(rz.delta, rz.n, Len(dual)) IN
    [i \in 1..Len(dual) |-> RMul(RDiv(dual[i], d[i]), rz.c)] \o <<>>

scale_dual_in_place_in(rz, dual) ==
    LET d == tail(rz.delta, Len(dual)) IN
    [i \in 1..Len(dual) |-> RMul(RDiv(dual[i], d[i]), rz.c)] \o <<>>

unscale_primal_in_place(rz, primal) ==
    LET d == head(rz.delta, rz.n) IN
    [i \in 1..Len(primal) |-> RMul(primal[i], d[i])] \o <<>>

unscale_dual_in_place(rz, dual) ==
    LET d == tail(rz.delta, Len(rz.delta) - rz.n) IN
    [i \in 1..Len(dual) |-> RDiv(RMul(dual[i], d[i]), rz.c)] \o <<>>

unscale_dual_in_place_eq(rz, dual) ==
    LET d == middleRows(rz.delta, rz.n, Len(dual)) IN
    [i \in 1..Len(dual) |-> RDiv(RMul(dual[i], d[i]), rz.c)] \o <<>>

\* an unscale of the inequality part that reads the equality rows of delta
unscale_dual_in_place_in_eq_rows(rz, dual) ==
    LET d == middleRows(rz.delta, rz.n, Len(dual)) IN
    [i \in 1..Len(dual) |-> RDiv(RMul(dual[i], d[i]), rz.c)] \o <<>>

unscale_dual_in_place_in(rz, dual) ==
    LET d == tail(rz.delta, Len(dual)) IN
    [i \in 1..Len(dual) |-> RDiv(RMul(dual[i], d[i]), rz.c)] \o <<>>

scale_primal_residual_in_place(rz, primal) ==
    LET d == tail(rz.delta, Len(rz.delta) - rz.n) IN
    [i \in 1..Len(primal) |-> RMul(primal[i], d[i])] \o <<>>

scale_primal_residual_in_place_eq(rz, primal_eq) ==
    LET d == middleRows(rz.delta, rz.n, Len(primal_eq)) IN
    [i \in 1..Len(primal_eq) |-> RMul(primal_eq[i], d[i])] \o <<>>

scale_primal_residual_in_place_in(rz, primal_in) ==
    LET d == tail(rz.delta, Len(primal_in)) IN
    [i \in 1..Len(primal_in) |-> RMul(primal_in[i], d[i])] \o <<>>

scale_dual_residual_in_place(rz, dual) ==
    LET d == head(rz.delta, rz.n) IN
    [i \in 1..Len(dual) |-> RMul(dual[i], RMul(d[i], rz.c))] \o <<>>

unscale_primal_residual_in_place(rz, primal) ==
    LET d == tail(rz.delta, Len(rz.delta) - rz.n) IN
    [i \in 1..Len(primal) |-> RDiv(primal[i], d[i])] \o <<>>

unscale_primal_residual_in_place_eq(rz, primal_eq) ==
    LET d == middleRows(rz.delta, rz.n, Len(primal_eq)) IN
    [i \in 1..Len(primal_eq) |-> RDiv(primal_eq[i], d[i])] \o <<>>

unscale_primal_residual_in_place_in(rz, primal_in) ==
    LET d == tail(rz.delta, Len(primal_in)) IN
    [i \in 1..Len(primal_in) |-> RDiv(primal_in[i], d[i])] \o <<>>

unscale_dual_residual_in_place(rz, dual) ==
    LET d == head(rz.delta, rz.n) IN
    [i \in 1..Len(dual) |-> RDiv(dual[i], RMul(d[i], rz.c))] \o <<>>

(* Inputs of the scaling specification: problem sizes <<n, n_eq, n_in>>,   *)
(* entries of delta (strictly positive), values of c (> 0), vector entries. *)
ScaleDims == {<<1, 1, 1>>, <<2, 1, 2>>}
DeltaVals == {R(1, 2), R(3, 1)}
CVals == {R(1, 1), R(2, 3)}
EntryVals == {R(-1, 1), R(2, 3), R(1, 10)}

ScaleKinds ==
    {"primal", "dual", "dual_eq", "dual_in", "primal_residual",
     "primal_residual_eq", "primal_residual_in", "dual_residual"}

\* the length of the vector each pair of operations is called with
KindLen(kind, n, n_eq, n_in) ==
    CASE kind \in {"primal", "dual_residual"} -> n
      [] kind \in {"dual", "primal_residual"} -> n_eq + n_in
      [] kind \in {"dual_eq", "primal_residual_eq"} -> n_eq
      [] kind \in {"dual_in", "primal_residual_in"} -> n_in

ScaleOp(kind, rz, v) ==
    CASE kind = "primal" -> scale_primal_in_place(rz, v)
      [] kind = "dual" -> scale_dual_in_place(rz, v)
      [] kind = "dual_eq" -> scale_dual_in_place_eq(rz, v)
      [] kind = "dual_in" -> scale_dual_in_place_in(rz, v)
      [] kind = "primal_residual" -> scale_primal_residual_in_place(rz, v)
      [] kind = "primal_residual_eq" -> scale_primal_residual_in_place_eq(rz, v)
      [] kind = "primal_residual_in" -> scale_primal_residual_in_place_in(rz, v)
      [] kind = "dual_residual" -> scale_dual_residual_in_place(rz, v)

UnscaleOp(kind, rz, v) ==
    CASE kind = "primal" -> unscale_primal_in_place(rz, v)
      [] kind = "dual" -> unscale_dual_in_place(rz, v)
      [] kind = "dual_eq" -> unscale_dual_in_place_eq(rz, v)
      [] kind = "dual_in" -> unscale_dual_in_place_in(rz, v)
      [] kind = "primal_residual" -> unscale_primal_residual_in_place(rz, v)
      [] kind = "primal_residual_eq" -> unscale_primal_residual_in_place_eq(rz, v)
      [] kind = "primal_residual_in" -> unscale_primal_residual_in_place_in(rz, v)
      [] kind = "dual_residual" -> unscale_dual_residual_in_place(rz, v)

ScaleInit ==
    /\ \E d \in ScaleDims, c \in CVals :
         \E delta \in [1..(d[1] + d[2] + d[3]) -> DeltaVals] :
           \E kind \in ScaleKinds :
             \E v \in [1..KindLen(kind, d[1], d[2], d[3]) -> EntryVals] :
               /\ ruiz = [RuizCtor(d[1], d[2] + d[3]) EXCEPT !.delta = delta, !.c = c]
               /\ vec = v
               /\ sc = [kind |-> kind, stage |-> "input", orig |-> v,
                        n_eq |-> d[2], n_in |-> d[3]]
    /\ ResultsIdle
    /\ UpdateIdle
    /\ DenseIdle
    /\ SparseIdle

\* precond.scale_*_in_place(vec)
ScaleInPlace ==
    /\ sc.stage = "input"
    /\ vec' = ScaleOp(sc.kind, ruiz, vec)
    /\ sc' = [sc EXCEPT !.stage = "scaled"]
    /\ ScaleFrame

\* precond.unscale_*_in_place(vec)
UnscaleInPlace ==
    /\ sc.stage = "scaled"
    /\ vec' = UnscaleOp(sc.kind, ruiz, vec)
    /\ sc' = [sc EXCEPT !.stage = "unscaled"]
    /\ ScaleFrame

ScaleNext ==
    \/ ScaleInPlace
    \/ UnscaleInPlace

SpecScale == ScaleInit /\ [][ScaleNext]_vars

\* C6: for a stored delta > 0 and c > 0, each unscale_* after the matching
\* scale_* gives back the input vector (primal, dual, dual_eq, dual_in,
\* primal_residual, _eq, _in, dual_residual), on doubles up to the rounding
\* of the two operations, and scaling the two halves of a dual vector with
\* the _eq and _in operations gives the same vector as the combined
\* scale_dual_in_place (likewise for unscaling).
C6_ScaleUnscaleRoundTrip ==
    /\ sc.stage = "unscaled" => AgreeUpToRounding(vec, sc.orig)
    /\ (sc.kind = "dual" /\ sc.stage = "scaled") =>
          /\ vec = scale_dual_in_place_eq(ruiz, head(sc.orig, sc.n_eq))
                     \o scale_dual_in_place_in(ruiz, tail(sc.orig, sc.n_in))
          /\ unscale_dual_in_place(ruiz, vec) =
                unscale_dual_in_place_eq(ruiz, head(vec, sc.n_eq))
                  \o unscale_dual_in_place_in(ruiz, tail(vec, sc.n_in))

\* a dual vector with n_eq # n_in went through scale and unscale under a
\* delta that is not constant and c # 1, and the two roundings are seen
C6_Witness ==
    /\ sc.stage = "unscaled"
    /\ vec # sc.orig
    /\ sc.kind = "dual"
    /\ sc.n_eq # sc.n_in
    /\ ruiz.c # One
    /\ \E i, j \in 1..Len(ruiz.delta) : ruiz.delta[i] # ruiz.delta[j]
    /\ vec # ScaleOp(sc.kind, ruiz, vec)


(***************************************************************************)
(* QP<T, I>::update of the sparse wrapper (src/unnamed/part_000:380-523).  *)
(* A sparse matrix is [nrows, ncols, e], e a function from the stored      *)
(* positions <<row, column>> to their values; its sparsity structure is    *)
(* the sizes and the set of stored positions.                              *)
(***************************************************************************)
Mat(nrows, ncols, e) == [nrows |-> nrows, ncols |-> ncols, e |-> e]

\* Eigen: m.triangularView<Eigen::Upper>()
triangularView_Upper(m) ==
    Mat(m.nrows, m.ncols, [p \in {q \in DOMAIN m.e : q[1] <= q[2]} |-> m.e[p]])

\* Eigen: m.transpose()
transpose(m) ==
    Mat(m.ncols, m.nrows,
        [p \in {<<q[2], q[1]>> : q \in DOMAIN m.e} |-> m.e[<<p[2], p[1]>>]])

\* have_same_structure(a, b): same sizes, same row indices in every column
have_same_structure(a, b) ==
    /\ a.nrows = b.nrows
    /\ a.ncols = b.ncols
    /\ DOMAIN a.e = DOMAIN b.e

\* copy(a, b): the values of b written over the stored entries of a
\* (column by column, as many entries as the column of a holds)
copy(a, b) ==
    [a EXCEPT !.e = [p \in DOMAIN a.e |-> b.e[p]]]

\* qp_setup(qp, results, model, ...): stores the QP it is handed as the model
qp_setup(m, qp) ==
    [m EXCEPT !.H = qp.H, !.g = qp.g, !.AT = qp.AT, !.b = qp.b,
              !.CT = qp.CT, !.l = qp.l, !.u = qp.u]

\* an update that overwrites each matching matrix on its own
update_matrices_one_by_one(m, H_, A_, C_) ==
    LET sameH == HasValue(H_) /\ have_same_structure(m.H, triangularView_Upper(Value(H_)))
        sameA == HasValue(A_) /\ have_same_structure(m.AT, transpose(Value(A_)))
        sameC == HasValue(C_) /\ have_same_structure(m.CT, transpose(Value(C_)))
        m1 == IF sameH THEN [m EXCEPT !.H = triangularView_Upper(Value(H_))] ELSE m
        m2 == IF sameA THEN [m1 EXCEPT !.AT = transpose(Value(A_))] ELSE m1
    IN IF sameC THEN [m2 EXCEPT !.CT = transpose(Value(C_))] ELSE m2

\* the matrix part of update(): lines 433-507
update_matrices(m, H_, A_, C_) ==
    LET H_triu == triangularView_Upper(Value(H_))
        sameH == have_same_structure(m.H, H_triu)
        sameA == have_same_structure(m.AT, transpose(Value(A_)))
        sameC == have_same_structure(m.CT, transpose(Value(C_)))
    IN
    IF HasValue(H_) THEN
        IF HasValue(A_) THEN
            IF HasValue(C_) THEN
                IF sameH /\ sameA /\ sameC
                THEN [m EXCEPT !.H = copy(m.H, H_triu),
                               !.AT = copy(m.AT, transpose(Value(A_))),
                               !.CT = copy(m.CT, transpose(Value(C_)))]
                ELSE m
            ELSE
                IF sameH /\ sameA
                THEN [m EXCEPT !.H = copy(m.H, H_triu),
                               !.AT = copy(m.AT, transpose(Value(A_)))]
                ELSE m
        ELSE IF HasValue(C_) THEN
            IF sameH /\ sameC
            THEN [m EXCEPT !.H = copy(m.H, H_triu),
                           !.CT = copy(m.CT, transpose(Value(C_)))]
            ELSE m
        ELSE
            IF sameH THEN [m EXCEPT !.H = copy(m.H, Value(H_))] ELSE m
    ELSE IF HasValue(A_) THEN
        IF HasValue(C_) THEN
            IF sameA /\ sameC
            THEN [m EXCEPT !.AT = copy(m.AT, transpose(Value(A_))),
                           !.CT = copy(m.CT, transpose(Value(C_)))]
            ELSE m
        ELSE
            IF sameA THEN [m EXCEPT !.AT = copy(m.AT, transpose(Value(A_)))] ELSE m
    ELSE IF HasValue(C_) THEN
        IF sameC THEN [m EXCEPT !.CT = copy(m.CT, transpose(Value(C_)))] ELSE m
    ELSE m

\* the vector part of update(): lines 421-432
update_vectors(m, g_, b_, u_, l_) ==
    LET m1 == IF HasValue(g_) THEN [m EXCEPT !.g = Value(g_)] ELSE m
        m2 == IF HasValue(b_) THEN [m1 EXCEPT !.b = Value(b_)] ELSE m1
        m3 == IF HasValue(u_) THEN [m2 EXCEPT !.u = Value(u_)] ELSE m2
    IN IF HasValue(l_) THEN [m3 EXCEPT !.l = Value(l_)] ELSE m3

\* QP::update(H_, g_, A_, b_, C_, u_, l_, ...): the stored model it leaves
update(m, H_, g_, A_, b_, C_, u_, l_) ==
    LET m1 == update_matrices(update_vectors(m, g_, b_, u_, l_), H_, A_, C_)
        qp == [H |-> triangularView_Upper(m1.H), g |-> m1.g, AT |-> m1.AT,
               b |-> m1.b, CT |-> m1.CT, l |-> m1.l, u |-> m1.u]
    IN qp_setup(m1, qp)

(* Inputs of the update specification: a model with n = 2, n_eq = 1,       *)
(* n_in = 1 installed at setup, and the arguments update() may be given.   *)

\* the matrices installed at setup: H (upper triangle stored), A, C
H_setup == Mat(2, 2, <<1, 1>> :> Q(4) @@ <<1, 2>> :> Q(1) @@ <<2, 1>> :> Q(1) @@ <<2, 2>> :> Q(4))
A_setup == Mat(1, 2, <<1, 1>> :> Q(1) @@ <<1, 2>> :> Q(1))
C_setup == Mat(1, 2, <<1, 1>> :> Q(1) @@ <<1, 2>> :> Q(-1))

\* new values on the installed pattern, and matrices of another pattern
H_args ==
    { NullOpt,
      Some(Mat(2, 2, <<1, 1>> :> Q(2) @@ <<1, 2>> :> Q(-1) @@ <<2, 1>> :> Q(-1) @@ <<2, 2>> :> Q(3))),
      Some(Mat(2, 2, <<1, 1>> :> Q(2) @@ <<2, 2>> :> Q(3))) }
A_args ==
    { NullOpt,
      Some(Mat(1, 2, <<1, 1>> :> Q(2) @@ <<1, 2>> :> Q(-1))),
      Some(Mat(1, 2, <<1, 2>> :> Q(5))) }
C_args ==
    { NullOpt,
      Some(Mat(1, 2, <<1, 1>> :> Q(3) @@ <<1, 2>> :> Q(2))),
      Some(Mat(1, 2, <<1, 1>> :> Q(7))) }
\* the vector arguments <<g_, b_, u_, l_>> of a call
g_new == Some(<<Q(1), Q(-2)>>)
b_new == Some(<<Q(3)>>)
u_new == Some(<<Q(5)>>)
l_new == Some(<<Q(-5)>>)
vec_args ==
    { <<NullOpt, NullOpt, NullOpt, NullOpt>>,
      <<g_new, NullOpt, u_new, NullOpt>>,
      <<NullOpt, b_new, NullOpt, l_new>>,
      <<g_new, b_new, u_new, l_new>> }

\* init(H, g, A, b, C, u, l): the model qp_setup stores
UpdateInit ==
    /\ model = [dim |-> 2, n_eq |-> 1, n_in |-> 1,
                H |-> triangularView_Upper(H_setup), g |-> <<Q(0), Q(0)>>,
                AT |-> transpose(A_setup), b |-> <<Q(1)>>,
                CT |-> transpose(C_setup), l |-> <<Q(-1)>>, u |-> <<Q(1)>>]
    /\ call = [op |-> "init"]
    /\ ResultsIdle
    /\ ScaleIdle
    /\ DenseIdle
    /\ SparseIdle

Update ==
    \E H_ \in H_args, A_ \in A_args, C_ \in C_args, v \in vec_args :
      LET g_ == v[1]
          b_ == v[2]
          u_ == v[3]
          l_ == v[4]
      IN
        /\ model' = update(model, H_, g_, A_, b_, C_, u_, l_)
        /\ call' = [op |-> "update", H_ |-> H_, A_ |-> A_, C_ |-> C_,
                    g_ |-> g_, b_ |-> b_, u_ |-> u_, l_ |-> l_,
                    H |-> model.H, AT |-> model.AT, CT |-> model.CT]
        /\ UpdateFrame

UpdateNext == Update

SpecUpdate == UpdateInit /\ [][UpdateNext]_vars

\* the update() call that returned, seen from the claims
Updated == call.op = "update"
\* the matrices the call supplied, as the wrapper stores them
SuppliedH == triangularView_Upper(Value(call.H_))
SuppliedAT == transpose(Value(call.A_))
SuppliedCT == transpose(Value(call.C_))
\* some / every supplied matrix has the structure of its stored counterpart
HMatches == HasValue(call.H_) => have_same_structure(call.H, SuppliedH)
AMatches == HasValue(call.A_) => have_same_structure(call.AT, SuppliedAT)
CMatches == HasValue(call.C_) => have_same_structure(call.CT, SuppliedCT)
AllMatch == HMatches /\ AMatches /\ CMatches
MatricesUnchanged == model.H = call.H /\ model.AT = call.AT /\ model.CT = call.CT

\* C8: when update() is called with a matrix (H, A or C) whose sparsity
\* pattern differs from the installed one, the stored model matrices after
\* the call are the newly supplied ones (a full setup with the new
\* matrices), and so their structure is the new pattern.
C8_PatternMismatchFullSetup ==
    (Updated /\ ~AllMatch) =>
        /\ HasValue(call.H_) => model.H = SuppliedH
        /\ HasValue(call.A_) => model.AT = SuppliedAT
        /\ HasValue(call.C_) => model.CT = SuppliedCT

\* C9: update() overwrites the stored matrices all-or-nothing: a stored
\* matrix changes only if every supplied matrix has the structure of its
\* stored counterpart (and then each supplied one holds the new values); if
\* one differs, no stored matrix changes; a matrix that is not supplied never
\* changes; supplied vectors g, b, u, l replace the stored ones in every case.
C9_UpdateAllOrNothing ==
    Updated =>
        /\ ~MatricesUnchanged => AllMatch
        /\ ~AllMatch => MatricesUnchanged
        /\ AllMatch =>
              /\ HasValue(call.H_) => model.H = SuppliedH
              /\ HasValue(call.A_) => model.AT = SuppliedAT
              /\ HasValue(call.C_) => model.CT = SuppliedCT
        /\ ~HasValue(call.H_) => model.H = call.H
        /\ ~HasValue(call.A_) => model.AT = call.AT
        /\ ~HasValue(call.C_) => model.CT = call.CT
        /\ HasValue(call.g_) => model.g = Value(call.g_)
        /\ HasValue(call.b_) => model.b = Value(call.b_)
        /\ HasValue(call.u_) => model.u = Value(call.u_)
        /\ HasValue(call.l_) => model.l = Value(call.l_)

\* an update() returned that supplied a matching H with new values, an A of
\* another pattern and new vectors g and u: H was not overwritten
C9_Witness ==
    /\ Updated
    /\ HasValue(call.H_) /\ HMatches /\ SuppliedH # call.H
    /\ HasValue(call.A_) /\ ~AMatches
    /\ HasValue(call.g_) /\ HasValue(call.u_)
    /\ model.H = call.H

(***************************************************************************)
(* The dense solver qpSolve (src/include/qp/in_solver.hpp:3133-3675).      *)
(*                                                                         *)
(* The penalties mu and the BCL thresholds eta are the doubles the code    *)
(* computes.  The residual norms the outer loop reads                      *)
(* (global_primal_residual, global_dual_residual) and the errors and       *)
(* iterates the inner solvers hand back are inputs of the steps, drawn     *)
(* from small sets.                                                        *)
(***************************************************************************)
\* the literals T(10), T(0.1), T(0.9), T(1.1), T(1e3), T(1.E5), T(1e8), T(1e10),
\* T(1e-1), T(1e-2), T(1e-6), T(1e-7), T(1e-9), T(1e-10) of the solver and its
\* callers, T = double
T_10 == Q(10)
T_0_1 == R(1, 10)
T_0_9 == R(9, 10)
T_1_1 == R(11, 10)
T_1e3 == Q(1000)
T_1e5 == Q(100000)
T_1e8 == Q(100000000)
T_1e10 == RPow(Q(10), 10)
T_1e_1 == TenToMinus(1)
T_1e_2 == TenToMinus(2)
T_1e_6 == TenToMinus(6)
T_1e_7 == TenToMinus(7)
T_1e_9 == TenToMinus(9)
T_1e_10 == TenToMinus(10)
\* std::pow of the C library on the penalties bcl_mu_in that qpSolve
\* reaches (10, 100, ... up to the cap 1e8, and 1.1, 11, ... after a cold
\* restart): <<x, pow(x, T(0.1)), pow(x, T(0.9))>>, the doubles it returns
PowRows ==
    {
       <<<<1, -49, 20971520, 0>>, <<1, -52, 21121263, 150742532>>, <<1, -50, 33316540, 247543106>>>>,
       <<<<1, -46, 26214400, 0>>, <<1, -52, 26590095, 114581587>>, <<1, -47, 33080336, 113355772>>>>,
       <<<<1, -43, 32768000, 0>>, <<1, -52, 33474946, 224114864>>, <<1, -44, 32845806, 145759626>>>>,
       <<<<1, -39, 20480000, 0>>, <<1, -51, 21071230, 164940895>>, <<1, -41, 32612939, 110526286>>>>,
       <<<<1, -36, 25600000, 0>>, <<1, -51, 26527107, 182082387>>, <<1, -38, 32381723, 64457853>>>>,
       <<<<1, -33, 32000000, 0>>, <<1, -51, 33395649, 257060320>>, <<1, -35, 32152146, 86791259>>>>,
       <<<<1, -29, 20000000, 0>>, <<1, -50, 21021316, 50336487>>, <<1, -32, 31924197, 10603760>>>>,
       <<<<1, -26, 25000000, 0>>, <<1, -50, 26464269, 36997527>>, <<1, -29, 31697863, 227961371>>>>,
       <<<<1, -52, 18454937, 161061274>>, <<1, -52, 16937884, 106780863>>, <<1, -52, 18279878, 222065724>>>>,
       <<<<1, -49, 23068672, 0>>, <<1, -52, 21323533, 24269093>>, <<1, -49, 18150279, 228113310>>>>,
       <<<<1, -46, 28835840, 0>>, <<1, -52, 26844737, 181663755>>, <<1, -46, 18021599, 185500321>>>>,
       <<<<1, -42, 18022400, 0>>, <<1, -51, 16897761, 58278569>>, <<1, -43, 17893831, 224644736>>>>,
       <<<<1, -39, 22528000, 0>>, <<1, -51, 21273020, 268071162>>, <<1, -40, 17766969, 219926350>>>>,
       <<<<1, -36, 28160000, 0>>, <<1, -51, 26781146, 193494311>>, <<1, -37, 17641007, 58034341>>>>,
       <<<<1, -32, 17600000, 0>>, <<1, -50, 16857733, 21989085>>, <<1, -34, 17515937, 174750912>>>>,
       <<<<1, -29, 22000000, 0>>, <<1, -50, 21222628, 150878687>>, <<1, -31, 17391754, 212687358>>>> }
pow(x, y) ==
    The({ IF y = T_0_1 THEN r[2] ELSE r[3] : r \in {q \in PowRows : q[1] = x} })
\* max2(a, b): the larger of a and b
max2(a, b) == RMax(a, b)

\* QpSolveStats {n_ext, n_mu_updates, n_tot}
QpSolveStats(n_ext, n_mu_updates, n_tot) ==
    [n_ext |-> n_ext, n_mu_updates |-> n_mu_updates, n_tot |-> n_tot]

\* BCL_update_fact(primal_feasibility_lhs, bcl_eta_ext, bcl_eta_in, eps_abs,
\*                 n_mu_updates, bcl_mu_in, bcl_mu_eq, ye, ze, y, z, ..., beta)
\* including its call of mu_update, on the locals d of qpSolve
BCL_update_fact(d, primal_feasibility_lhs, eps_abs, beta) ==
    IF RLe(primal_feasibility_lhs, d.bcl_eta_ext)
    THEN [d EXCEPT !.bcl_eta_ext = RDiv(d.bcl_eta_ext, pow(d.bcl_mu_in, beta)),
                   !.bcl_eta_in = max2(RDiv(d.bcl_eta_in, d.bcl_mu_in), eps_abs),
                   !.event = "good step"]
    ELSE LET new_bcl_mu_in == RMin(RMul(d.bcl_mu_in, T_10), T_1e8)
             new_bcl_mu_eq == RMin(RMul(d.bcl_mu_eq, T_10), T_1e10)
         IN [d EXCEPT !.y = d.ye,
                      !.z = d.ze,
                      !.n_mu_updates =
                          IF d.bcl_mu_in # new_bcl_mu_in \/ d.bcl_mu_eq # new_bcl_mu_eq
                          THEN @ + 1 ELSE @,
                      !.bcl_mu_eq = new_bcl_mu_eq,
                      !.bcl_mu_in = new_bcl_mu_in,
                      !.bcl_eta_ext = RDiv(RDiv(One, pow(T_10, T_0_1)),
                                           pow(new_bcl_mu_in, T_0_1)),
                      !.bcl_eta_in = max2(RDiv(One, new_bcl_mu_in), eps_abs),
                      !.event = "bad step"]

\* the cold restart at the end of an outer iteration of qpSolve
cold_restart(d, primal_feasibility_lhs_new, dual_feasibility_lhs_new) ==
    IF /\ RLe(One, RDiv(primal_feasibility_lhs_new,
                        max2(d.primal_feasibility_lhs, machine_eps)))
       /\ RLe(One, RDiv(dual_feasibility_lhs_new,
                        max2(d.primal_feasibility_lhs, machine_eps)))
       /\ RLe(T_1e5, d.bcl_mu_in)
    THEN [d EXCEPT !.bcl_mu_eq = T_1_1, !.bcl_mu_in = T_1_1,
                   !.event = "cold restart"]
    ELSE [d EXCEPT !.event = "no restart"]

\* arguments of qpSolve: eps_abs = 1e-9, eps_rel = 0, err_IG = 1e-2, beta = 0.9
DenseSettings ==
    [eps_abs |-> T_1e_9, eps_rel |-> Zero, err_IG |-> T_1e_2,
     beta |-> T_0_9]
\* largest max_iter a run is given
MaxIterDense == 5
\* residual norms and inner errors a step may read: 1e-10, 1e-1, 1
ResVals == {T_1e_10, T_1e_1, One}
\* iterates <<x, y, z>> (dim = n_eq = n_in = 1) the inner solvers may hand back
DenseIterates ==
    { <<<<Q(1)>>, <<Q(2)>>, <<Q(0)>>>>, <<<<R(1, 2)>>, <<Q(-1)>>, <<Q(3)>>>> }
\* the preconditioner: the identity, or a Ruiz scaling
DensePreconds ==
    { RuizCtor(1, 2),
      [RuizCtor(1, 2) EXCEPT !.delta = <<Q(2), R(1, 2), Q(3)>>, !.c = Q(2)] }
\* inner iterations one correction_guess may add to n_tot
InnerIters == {1, 2}

\* qpSolve up to the outer loop: lines 3150-3163 and 3265-3267
DenseInit ==
    /\ \E max_iter \in {0, MaxIterDense}, w \in DenseIterates, pre \in DensePreconds :
         dn = [pc |-> "head", iter |-> 0, max_iter |-> max_iter, precond |-> pre,
               n_mu_updates |-> 0, n_tot |-> 0, n_ext |-> 0,
               rho |-> T_1e_6, bcl_mu_eq |-> T_1e3, bcl_mu_in |-> T_10,
               bcl_eta_ext |-> RDiv(One, pow(T_10, T_0_1)), bcl_eta_in |-> One,
               x |-> w[1], y |-> w[2], z |-> w[3], ye |-> w[2], ze |-> w[3],
               primal_feasibility_lhs |-> One, bcl_lhs |-> One,
               unscaled |-> 0, scaled_xyz |-> w, event |-> "start", ret |-> NullOpt]
    /\ ResultsIdle
    /\ ScaleIdle
    /\ UpdateIdle
    /\ SparseIdle

\* top of an outer iteration: the loop guard, the residuals, the convergence
\* test with the rho update and the return on convergence (lines 3291-3407);
\* the reference norms of the relative tolerance are taken 1
DenseTest ==
    /\ dn.pc = "head"
    /\ dn.iter < dn.max_iter
    /\ \E primal_feasibility_lhs \in ResVals, dual_feasibility_lhs \in ResVals :
         LET tol == RAdd(DenseSettings.eps_abs, RMul(DenseSettings.eps_rel, One))
             is_primal_feasible == RLe(primal_feasibility_lhs, tol)
             is_dual_feasible == RLe(dual_feasibility_lhs, tol)
             d1 == [dn EXCEPT !.n_ext = @ + 1,
                              !.primal_feasibility_lhs = primal_feasibility_lhs]
             d2 == IF /\ is_primal_feasible
                      /\ RLt(T_1e_2, dual_feasibility_lhs)
                      /\ d1.rho # T_1e_7
                   THEN [d1 EXCEPT !.rho = max2(RDiv(d1.rho, T_10), T_1e_7)]
                   ELSE d1
         IN IF is_primal_feasible /\ is_dual_feasible
            THEN dn' = [d2 EXCEPT !.scaled_xyz = <<d2.x, d2.y, d2.z>>,
                                  !.x = unscale_primal_in_place(d2.precond, d2.x),
                                  !.y = unscale_dual_in_place_eq(d2.precond, d2.y),
                                  !.z = unscale_dual_in_place_in(d2.precond, d2.z),
                                  !.unscaled = @ + 1,
                                  !.ret = Some(QpSolveStats(d2.n_ext, d2.n_mu_updates,
                                                            d2.n_tot)),
                                  !.event = "converged",
                                  !.pc = "returned"]
            ELSE dn' = [d2 EXCEPT !.ye = d2.y, !.ze = d2.z,
                                  !.event = "test failed", !.pc = "inner"]
    /\ DenseFrame

\* the inner solve of an outer iteration: initial_guess_fact and / or
\* correction_guess (lines 3440-3551)
DenseInner ==
    /\ dn.pc = "inner"
    /\ \E w \in DenseIterates, err_in \in ResVals, k \in InnerIters :
         LET guess == RLt(dn.primal_feasibility_lhs, DenseSettings.err_IG)
             correct == ~guess \/ RLe(dn.bcl_eta_in, err_in)
         IN dn' = [dn EXCEPT !.x = w[1], !.y = w[2], !.z = w[3],
                             !.n_tot = @ + (IF guess THEN 1 ELSE 0)
                                         + (IF correct THEN k ELSE 0),
                             !.event = IF guess THEN "initial guess" ELSE "correction guess",
                             !.pc = "bcl"]
    /\ DenseFrame

\* BCL_update_fact on the new primal residual (lines 3553-3613)
DenseBCL ==
    /\ dn.pc = "bcl"
    /\ \E primal_feasibility_lhs_new \in ResVals :
         dn' = [BCL_update_fact(dn, primal_feasibility_lhs_new,
                                DenseSettings.eps_abs, DenseSettings.beta)
                  EXCEPT !.pc = "restart", !.bcl_lhs = primal_feasibility_lhs_new]
    /\ DenseFrame

\* end of an outer iteration: the cold restart test (lines 3615-3671)
DenseColdRestart ==
    /\ dn.pc = "restart"
    /\ \E dual_feasibility_lhs_new \in ResVals :
         dn' = [cold_restart(dn, dn.bcl_lhs, dual_feasibility_lhs_new)
                  EXCEPT !.iter = @ + 1, !.pc = "head"]
    /\ DenseFrame

\* the loop ends at iter == max_iter (lines 3292-3296) and qpSolve returns
\* {max_iter, n_mu_updates, n_tot} (line 3674)
DenseMaxIter ==
    /\ dn.pc = "head"
    /\ dn.iter = dn.max_iter
    /\ dn' = [dn EXCEPT !.n_ext = @ + 1,
                        !.scaled_xyz = <<dn.x, dn.y, dn.z>>,
                        !.ret = Some(QpSolveStats(dn.max_iter, dn.n_mu_updates, dn.n_tot)),
                        !.event = "max_iter",
                        !.pc = "returned"]
    /\ DenseFrame

DenseNext ==
    \/ DenseTest
    \/ DenseInner
    \/ DenseBCL
    \/ DenseColdRestart
    \/ DenseMaxIter

SpecDense == DenseInit /\ [][DenseNext]_vars

\* C4: when qpSolve has returned, by convergence or at max_iter, each of
\* unscale_primal_in_place, unscale_dual_in_place_eq and
\* unscale_dual_in_place_in was applied exactly once to the last iterates:
\* the returned x, y, z are the unscaled last iterates.
C4_UnscaledOnBothExits ==
    dn.pc = "returned" =>
        /\ dn.unscaled = 1
        /\ dn.x = unscale_primal_in_place(dn.precond, dn.scaled_xyz[1])
        /\ dn.y = unscale_dual_in_place_eq(dn.precond, dn.scaled_xyz[2])
        /\ dn.z = unscale_dual_in_place_in(dn.precond, dn.scaled_xyz[3])

\* C7: the mu-update counter records every change of (mu_eq, mu_in): a step
\* of the solver that changes mu_eq or mu_in (a BCL rejection below the caps,
\* a cold reset) increments n_mu_updates by exactly one, and a step that
\* leaves both alone (an accepted BCL step, a rejection at the caps) leaves
\* the counter alone.
C7_CounterRecordsEveryMuChange ==
    [][ IF <<dn'.bcl_mu_eq, dn'.bcl_mu_in>> # <<dn.bcl_mu_eq, dn.bcl_mu_in>>
        THEN dn'.n_mu_updates = dn.n_mu_updates + 1
        ELSE dn'.n_mu_updates = dn.n_mu_updates ]_vars

(***************************************************************************)
(* The sparse solver qp_solve (src/include/qp/proxqp/solver_sparse.hpp).   *)
(*                                                                         *)
(* A QP is [H, g, AT, b, CT, l, u]: H the stored upper triangle (n x n),   *)
(* AT (n x n_eq) and CT (n x n_in) sparse matrices as above, the vectors   *)
(* sequences of numbers.                                                   *)
(***************************************************************************)
\* the row indices stored in column j of m, ascending (compressed columns)
RECURSIVE Ascending(_)
Ascending(S) ==
    IF S = {} THEN <<>>
    ELSE LET lo == CHOOSE x \in S : \A y \in S : x <= y
         IN <<lo>> \o Ascending(S \ {lo})
RECURSIVE Descending(_)
Descending(S) ==
    IF S = {} THEN <<>>
    ELSE LET hi == CHOOSE x \in S : \A y \in S : y <= x
         IN <<hi>> \o Descending(S \ {hi})
col_rows(m, j) == {q[1] : q \in {r \in DOMAIN m.e : r[2] = j}}

\* linear algebra on sequences of numbers (a vector is built as
\* [i \in 1..n |-> e] \o <<>>, the sequence with these n entries)
VAdd(a, b) ==
    The({ [i \in 1..Len(p[1]) |-> RAdd(p[1][i], p[2][i])] \o <<>> : p \in {<<a, b>>} })
VSub(a, b) ==
    The({ [i \in 1..Len(p[1]) |-> RSub(p[1][i], p[2][i])] \o <<>> : p \in {<<a, b>>} })
VScale(c, a) ==
    The({ [i \in 1..Len(p[2]) |-> RMul(p[1], p[2][i])] \o <<>> : p \in {<<c, a>>} })
VNeg(a) == The({ [i \in 1..Len(v) |-> RNeg(v[i])] \o <<>> : v \in {a} })
VMulCw(a, b) ==
    The({ [i \in 1..Len(p[1]) |-> RMul(p[1][i], p[2][i])] \o <<>> : p \in {<<a, b>>} })

\* a reduction of a dense vector, entry after entry from the first
RECURSIVE SumFrom(_, _, _)
SumFrom(acc, a, k) ==
    IF k > Len(a) THEN acc
    ELSE The({ SumFrom(t, a, k + 1) : t \in {RAdd(acc, a[k])} })
VSum(a) == The({ IF v = <<>> THEN Zero ELSE SumFrom(v[1], v, 2) : v \in {a} })
\* a.dot(b) and a.squaredNorm()
Dot(a, b) == VSum(VMulCw(a, b))
SquaredNorm(a) == The({ VSum(VMulCw(v, v)) : v \in {a} })

RECURSIVE MaxAbsFrom(_, _, _)
MaxAbsFrom(acc, a, k) ==
    IF k > Len(a) THEN acc
    ELSE The({ MaxAbsFrom(t, a, k + 1) : t \in {RMax(acc, RAbs(a[k]))} })
VMaxAbs(a) == The({ MaxAbsFrom(Zero, v, 1) : v \in {a} })

\* infty_norm(v)
infty_norm(v) == VMaxAbs(v)

\* detail::positive_part, detail::negative_part: (v > 0).select(v, 0) and
\* (v < 0).select(v, 0)
positive_part(v) ==
    The({ [i \in 1..Len(w) |-> IF RLt(Zero, w[i]) THEN w[i] ELSE Zero] \o <<>> : w \in {v} })
negative_part(v) ==
    The({ [i \in 1..Len(w) |-> IF RLt(w[i], Zero) THEN w[i] ELSE Zero] \o <<>> : w \in {v} })

\* the entry (i, j) of a sparse matrix, 0 where nothing is stored
Entry(m, i, j) == IF <<i, j>> \in DOMAIN m.e THEN m.e[<<i, j>>] ELSE Zero
\* the entry (i, j) of the symmetric matrix whose upper triangle is m
SymEntry(m, i, j) == IF i <= j THEN Entry(m, i, j) ELSE Entry(m, j, i)

\* the stored positions E of a matrix in the order of its compressed
\* columns: column after column, the rows of a column ascending
RECURSIVE InOrder(_)
InOrder(E) ==
    IF E = {} THEN <<>>
    ELSE The({ <<q>> \o InOrder(E \ {q})
               : q \in {CHOOSE x \in E : \A y \in E :
                            x[2] < y[2] \/ (x[2] = y[2] /\ x[1] <= y[1])} })

\* out.noalias() += m * v for m in compressed columns: every stored entry
\* (i, j), in storage order, adds m(i, j) * v(j) to out(i)
RECURSIVE mul_add_walk(_, _, _, _, _)
mul_add_walk(out, m, v, es, k) ==
    IF k > Len(es) THEN out
    ELSE The({ mul_add_walk(o, m, v, es, k + 1)
               : o \in {[out EXCEPT ![es[k][1]] =
                            RAdd(@, RMul(m.e[es[k]], v[es[k][2]]))]} })
MatVecAdd(out, m, v) ==
    The({ The({ mul_add_walk(p[1], p[2], p[3], es, 1) : es \in {InOrder(DOMAIN p[2].e)} })
          : p \in {<<out, m, v>>} })
\* m * v into a vector set to zero
MatVec(m, v) == MatVecAdd(ZeroVec(m.nrows), m, v)

\* m.transpose() * v, a product by rows: the sum of row j of m^T (column j
\* of m) is formed in a temporary that starts at 0, in storage order
RECURSIVE mul_t_walk(_, _, _, _, _)
mul_t_walk(tmp, m, v, es, k) ==
    IF k > Len(es) THEN tmp
    ELSE The({ mul_t_walk(o, m, v, es, k + 1)
               : o \in {[tmp EXCEPT ![es[k][2]] =
                            RAdd(@, RMul(m.e[es[k]], v[es[k][1]]))]} })
MatTVec(m, v) ==
    The({ The({ mul_t_walk(ZeroVec(p[1].ncols), p[1], p[2], es, 1)
                : es \in {InOrder(DOMAIN p[1].e)} })
          : p \in {<<m, v>>} })
\* out.noalias() += m.transpose() * v: the temporaries are added to out
MatTVecAdd(out, m, v) == VAdd(out, MatTVec(m, v))

\* detail::noalias_symhiv_add(out, h, v), out.noalias() +=
\* h.selfadjointView<Upper>() * v, on [out, res_j]: in column j every
\* stored entry above the diagonal adds h(i, j) * v(i) to res_j and
\* h(i, j) * v(j) to out(i)
RECURSIVE symhiv_walk(_, _, _, _, _, _)
symhiv_walk(st, h, v, j, rows, k) ==
    IF k > Len(rows) \/ rows[k] >= j THEN st
    ELSE The({ symhiv_walk(t, h, v, j, rows, k + 1)
               : t \in {[out |-> [st.out EXCEPT ![rows[k]] =
                                     RAdd(@, RMul(h.e[<<rows[k], j>>], v[j]))],
                         res_j |-> RAdd(st.res_j, RMul(h.e[<<rows[k], j>>], v[rows[k]]))]} })
\* column j: after the walk out(j) += res_j, then the stored diagonal entry
\* adds h(j, j) * v(j); entries below the diagonal are not read
symhiv_column(out, h, v, j) ==
    The({ The({ The({ IF <<j, j>> \in DOMAIN h.e
                      THEN [o EXCEPT ![j] = RAdd(@, RMul(h.e[<<j, j>>], v[j]))]
                      ELSE o
                      : o \in {[st.out EXCEPT ![j] = RAdd(@, st.res_j)]} })
                : st \in {symhiv_walk([out |-> out, res_j |-> Zero], h, v, j, rows, 1)} })
          : rows \in {Ascending(col_rows(h, j))} })
RECURSIVE symhiv_columns(_, _, _, _)
symhiv_columns(out, h, v, j) ==
    IF j > h.ncols THEN out
    ELSE The({ symhiv_columns(o, h, v, j + 1) : o \in {symhiv_column(out, h, v, j)} })
noalias_symhiv_add(out, h, v) ==
    The({ symhiv_columns(p[1], p[2], p[3], 1) : p \in {<<out, h, v>>} })
\* the product into a vector set to zero
SymHiVec(h, v) == noalias_symhiv_add(ZeroVec(h.nrows), h, v)

\* detail::rowwise_infty_norm(m): the largest |entry| of each row
rowwise_infty_norm(m) ==
    [i \in 1..m.nrows |-> VMaxAbs([j \in 1..m.ncols |-> Entry(m, i, j)])] \o <<>>
\* the largest |entry| of each column
colwise_infty_norm(m) ==
    [j \in 1..m.ncols |-> VMaxAbs([i \in 1..m.nrows |-> Entry(m, i, j)])] \o <<>>

\* the walk of column j that touches nothing but norm_j
RECURSIVE symhi_walk_column_only(_, _, _, _)
symhi_walk_column_only(st, h, j, rows) ==
    IF rows = <<>> \/ rows[1] > j THEN st
    ELSE symhi_walk_column_only(
             [st EXCEPT !.norm_j = RMax(@, RAbs(h.e[<<rows[1], j>>]))],
             h, j, Tail(rows))
\* colwise_infty_norm_symhi, column j: for (p = col_start; p < col_end; ++p)
\* { i = hi[p]; if (i > j) break; norm_j = max(norm_j, |hx[p]|);
\*   col_norm[i] = max(col_norm[i], |hx[p]|); } on [col_norm, norm_j]
RECURSIVE symhi_walk(_, _, _, _)
symhi_walk(st, h, j, rows) ==
    IF rows = <<>> \/ rows[1] > j THEN st
    ELSE LET i == rows[1]
             hij == RAbs(h.e[<<i, j>>])
         IN symhi_walk([col_norm |-> [st.col_norm EXCEPT ![i] = RMax(@, hij)],
                        norm_j |-> RMax(st.norm_j, hij)],
                       h, j, Tail(rows))
\* the loop over the columns j, ..., ncols; col_norm[j] = norm_j ends a column
RECURSIVE symhi_columns(_, _, _)
symhi_columns(col_norm, h, j) ==
    IF j > h.ncols THEN col_norm
    ELSE symhi_columns(
             CHOOSE c \in { [st.col_norm EXCEPT ![j] = st.norm_j]
                            : st \in {symhi_walk([col_norm |-> col_norm, norm_j |-> Zero],
                                                 h, j, Ascending(col_rows(h, j)))} } : TRUE,
             h, j + 1)
\* detail::colwise_infty_norm_symhi(col_norm, h)
colwise_infty_norm_symhi(col_norm, h) == symhi_columns(col_norm, h, 1)

\* colwise_infty_norm_symlo, column j: from the last entry of the column
\* upwards, { --p; i = hi[p]; if (i < j) break; norm_j = max(norm_j, |hx[p]|);
\* col_norm[i] = max(col_norm[i], |hx[p]|); if (p <= col_start) break; }
RECURSIVE symlo_walk(_, _, _, _)
symlo_walk(st, h, j, rows) ==
    IF rows = <<>> \/ rows[1] < j THEN st
    ELSE LET i == rows[1]
             hij == RAbs(h.e[<<i, j>>])
         IN symlo_walk([col_norm |-> [st.col_norm EXCEPT ![i] = RMax(@, hij)],
                        norm_j |-> RMax(st.norm_j, hij)],
                       h, j, Tail(rows))
\* the loop over the columns; col_norm[j] = max(col_norm[j], norm_j) ends one
RECURSIVE symlo_columns(_, _, _)
symlo_columns(col_norm, h, j) ==
    IF j > h.ncols THEN col_norm
    ELSE symlo_columns(
             CHOOSE c \in { [st.col_norm EXCEPT ![j] = RMax(@, st.norm_j)]
                            : st \in {symlo_walk([col_norm |-> col_norm, norm_j |-> Zero],
                                                 h, j, Descending(col_rows(h, j)))} } : TRUE,
             h, j + 1)
\* detail::colwise_infty_norm_symlo(col_norm, h)
colwise_infty_norm_symlo(col_norm, h) == symlo_columns(col_norm, h, 1)

\* the scaling factors delta of one round of detail::ruiz_scale_qp_in_place:
\* 1 / (machine_eps + sqrt(norm)), the norm of a variable taken over its
\* column of H and its rows of AT and CT, that of a constraint over its
\* column of AT or CT
ruiz_delta(qp) ==
    The({ [j \in 1..(qp.H.nrows + qp.AT.ncols + qp.CT.ncols) |->
              RInv(RAdd(machine_eps,
                        RSqrt(IF j <= qp.H.nrows
                              THEN RMax(nm[3][j], RMax(nm[1][j], nm[2][j]))
                              ELSE IF j <= qp.H.nrows + qp.AT.ncols
                              THEN nm[4][j - qp.H.nrows]
                              ELSE nm[5][j - qp.H.nrows - qp.AT.ncols])))] \o <<>>
          : nm \in {<<rowwise_infty_norm(qp.AT), rowwise_infty_norm(qp.CT),
                      colwise_infty_norm_symhi(ZeroVec(qp.H.nrows), qp.H),
                      colwise_infty_norm(qp.AT), colwise_infty_norm(qp.CT)>>} })
\* normalize A, C, H (UPPER: the walk of a column stops at the first stored
\* row i > j) and the vectors
ruiz_normalize(qp, delta) ==
    [H |-> [qp.H EXCEPT !.e = [q \in DOMAIN qp.H.e |->
                IF q[1] <= q[2]
                THEN RMul(RMul(delta[q[2]], qp.H.e[q]), delta[q[1]])
                ELSE qp.H.e[q]]],
     g |-> VMulCw(qp.g, head(delta, qp.H.nrows)),
     AT |-> [qp.AT EXCEPT !.e = [q \in DOMAIN qp.AT.e |->
                RMul(delta[q[1]], RMul(qp.AT.e[q], delta[qp.H.nrows + q[2]]))]],
     b |-> VMulCw(qp.b, middleRows(delta, qp.H.nrows, qp.AT.ncols)),
     CT |-> [qp.CT EXCEPT !.e = [q \in DOMAIN qp.CT.e |->
                RMul(delta[q[1]],
                     RMul(qp.CT.e[q], delta[qp.H.nrows + qp.AT.ncols + q[2]]))]],
     l |-> VMulCw(qp.l, tail(delta, qp.CT.ncols)),
     u |-> VMulCw(qp.u, tail(delta, qp.CT.ncols))]
\* additional normalization: gamma = 1 / max(avg, 1), avg the mean of the
\* column norms of H
ruiz_gamma(H) ==
    RInv(RMax(RDiv(VSum(colwise_infty_norm_symhi(ZeroVec(H.nrows), H)), Q(H.nrows)),
              One))
\* qp.g *= gamma; qp.H *= gamma
ruiz_rescale(qp, gamma) ==
    [qp EXCEPT !.g = VScale(gamma, qp.g),
               !.H = [qp.H EXCEPT !.e = [q \in DOMAIN qp.H.e |-> RMul(qp.H.e[q], gamma)]]]

\* one round of the loop of detail::ruiz_scale_qp_in_place on [qp, S, c]
ruiz_round(st) ==
    The({ The({ The({ [qp |-> ruiz_rescale(q1, gamma),
                       S |-> VMulCw(st.S, delta),
                       c |-> RMul(st.c, gamma),
                       gamma |-> gamma,
                       delta |-> delta]
                      : gamma \in {ruiz_gamma(q1.H)} })
                : q1 \in {ruiz_normalize(st.qp, delta)} })
          : delta \in {ruiz_delta(st.qp)} })

\* the loop of detail::ruiz_scale_qp_in_place: while (|1 - delta| > epsilon)
\* { if (iter == max_iter) break; else ++iter; ... }
RECURSIVE ruiz_loop(_, _, _, _)
ruiz_loop(st, iter, epsilon, max_iter) ==
    IF ~RLt(epsilon, infty_norm([j \in 1..Len(st.delta) |-> RSub(One, st.delta[j])] \o <<>>))
         \/ iter = max_iter
    THEN st
    ELSE The({ ruiz_loop(t, iter + 1, epsilon, max_iter) : t \in {ruiz_round(st)} })

\* detail::ruiz_scale_qp_in_place(delta_, qp, epsilon, max_iter, sym, stack):
\* the scaled qp, the accumulated scaling S (written to delta_) and c
ruiz_scale_qp_in_place(S, qp, epsilon, max_iter) ==
    ruiz_loop([qp |-> qp, S |-> S, c |-> One, delta |-> ZeroVec(Len(S))],
              1, epsilon, max_iter)

\* RuizEquilibration::scale_qp_in_place(qp): <<the preconditioner, the scaled qp>>
\* (constructor defaults epsilon_ = 1e-3, max_iter_ = 10)
Ruiz_scale_qp_in_place(rz, qp) ==
    The({ <<[rz EXCEPT !.delta = r.S, !.c = r.c], r.qp>>
          : r \in {ruiz_scale_qp_in_place([j \in 1..Len(rz.delta) |-> One] \o <<>>,
                                          qp, R(1, 1000), 10)} })

\* the preconditioner P of qp_solve: preconditioner::Identity (every
\* operation a no-op) or preconditioner::RuizEquilibration
P_scale_qp_in_place(P, rz, qp) ==
    IF P = "Identity" THEN <<rz, qp>> ELSE Ruiz_scale_qp_in_place(rz, qp)
P_scale_primal_in_place(P, rz, v) ==
    The({ IF P = "Identity" THEN w ELSE scale_primal_in_place(rz, w) : w \in {v} })
P_scale_dual_in_place_eq(P, rz, v) ==
    The({ IF P = "Identity" THEN w ELSE scale_dual_in_place_eq(rz, w) : w \in {v} })
P_scale_dual_in_place_in(P, rz, v) ==
    The({ IF P = "Identity" THEN w ELSE scale_dual_in_place_in(rz, w) : w \in {v} })
P_unscale_primal_in_place(P, rz, v) ==
    The({ IF P = "Identity" THEN w ELSE unscale_primal_in_place(rz, w) : w \in {v} })
P_unscale_dual_in_place_eq(P, rz, v) ==
    The({ IF P = "Identity" THEN w ELSE unscale_dual_in_place_eq(rz, w) : w \in {v} })
P_unscale_dual_in_place_in(P, rz, v) ==
    The({ IF P = "Identity" THEN w ELSE unscale_dual_in_place_in(rz, w) : w \in {v} })
P_scale_primal_residual_in_place_eq(P, rz, v) ==
    The({ IF P = "Identity" THEN w ELSE scale_primal_residual_in_place_eq(rz, w)
          : w \in {v} })
P_scale_primal_residual_in_place_in(P, rz, v) ==
    The({ IF P = "Identity" THEN w ELSE scale_primal_residual_in_place_in(rz, w)
          : w \in {v} })
P_scale_dual_residual_in_place(P, rz, v) ==
    The({ IF P = "Identity" THEN w ELSE scale_dual_residual_in_place(rz, w) : w \in {v} })
P_unscale_primal_residual_in_place_eq(P, rz, v) ==
    The({ IF P = "Identity" THEN w ELSE unscale_primal_residual_in_place_eq(rz, w)
          : w \in {v} })
P_unscale_primal_residual_in_place_in(P, rz, v) ==
    The({ IF P = "Identity" THEN w ELSE unscale_primal_residual_in_place_in(rz, w)
          : w \in {v} })
P_unscale_dual_residual_in_place(P, rz, v) ==
    The({ IF P = "Identity" THEN w ELSE unscale_dual_residual_in_place(rz, w) : w \in {v} })

\* unscaled_primal_residual(): the unscaled primal residual norm, the
\* reference norms, and the residual vectors it leaves behind.  u holds
\* A x and C x unscaled, w the violation of l <= C x <= u and A x - b
unscaled_primal_residual(s) ==
    The({ The({ [lhs |-> RMax(infty_norm(w[2]), infty_norm(w[1])),
                 primal_feasibility_eq_rhs_0 |-> infty_norm(u[1]),
                 primal_feasibility_in_rhs_0 |-> infty_norm(u[2]),
                 primal_residual_eq_scaled |->
                     P_scale_primal_residual_in_place_eq(s.P, s.precond, w[2]),
                 primal_residual_in_scaled_up |->
                     P_scale_primal_residual_in_place_in(s.P, s.precond, u[2]),
                 primal_residual_in_scaled_lo |-> w[1]]
                : w \in {<<VAdd(positive_part(VSub(u[2], s.qp.u)),
                                negative_part(VSub(u[2], s.qp.l))),
                           VSub(u[1], s.qp.b)>>} })
          : u \in {<<P_unscale_primal_residual_in_place_eq(
                         s.P, s.precond, MatTVec(s.qp_scaled.AT, s.x)),
                     P_unscale_primal_residual_in_place_in(
                         s.P, s.precond, MatTVec(s.qp_scaled.CT, s.x))>>} })

\* unscaled_dual_residual(): the unscaled dual residual norm, the reference
\* norms, and the scaled dual residual it leaves behind.  p holds Hx, ATy
\* and CTz, added to g in this order
unscaled_dual_residual(s) ==
    The({ The({ [lhs |-> infty_norm(dual_u),
                 dual_feasibility_rhs_0 |->
                     infty_norm(P_unscale_dual_residual_in_place(s.P, s.precond, p[1])),
                 dual_feasibility_rhs_1 |->
                     infty_norm(P_unscale_dual_residual_in_place(s.P, s.precond, p[2])),
                 dual_feasibility_rhs_3 |->
                     infty_norm(P_unscale_dual_residual_in_place(s.P, s.precond, p[3])),
                 dual_residual_scaled |->
                     P_scale_dual_residual_in_place(s.P, s.precond, dual_u)]
                : dual_u \in {P_unscale_dual_residual_in_place(
                                  s.P, s.precond,
                                  VAdd(VAdd(VAdd(s.qp_scaled.g, p[1]), p[2]), p[3]))} })
          : p \in {<<SymHiVec(s.qp_scaled.H, s.x),
                     MatVec(s.qp_scaled.AT, s.y),
                     MatVec(s.qp_scaled.CT, s.z)>>} })

\* is_primal_feasible(primal_feasibility_lhs), pr the primal residual record
is_primal_feasible(s, pr) ==
    RLe(pr.lhs,
        IF s.settings.eps_rel # Zero
        THEN RAdd(s.settings.eps_abs,
                  RMul(s.settings.eps_rel,
                       RMax(RMax(pr.primal_feasibility_eq_rhs_0,
                                 pr.primal_feasibility_in_rhs_0),
                            RMax(infty_norm(s.qp.b),
                                 RMax(infty_norm(s.qp.l), infty_norm(s.qp.u))))))
        ELSE s.settings.eps_abs)

\* is_dual_feasible(dual_feasibility_lhs), du the dual residual record
is_dual_feasible(s, du) ==
    RLe(du.lhs,
        IF s.settings.eps_rel # Zero
        THEN RAdd(s.settings.eps_abs,
                  RMul(s.settings.eps_rel,
                       RMax(RMax(du.dual_feasibility_rhs_0, du.dual_feasibility_rhs_1),
                            RMax(infty_norm(s.qp.g), du.dual_feasibility_rhs_3))))
        ELSE s.settings.eps_abs)

\* a convergence test that looks at the primal residual only
converged_primal_only(s, pr, du) == is_primal_feasible(s, pr)

\* the convergence test of the outer loop: is_primal_feasible(...) &&
\* is_dual_feasible(...) on the residuals pr and du of the current x, y, z
converged(s, pr, du) == is_primal_feasible(s, pr) /\ is_dual_feasible(s, du)

\* the diagonal handed to factorize_numeric by refactorize(): rho, -1/mu_eq
\* and, per inequality, -1/mu_in if active and 1 if not, with rho, mu_eq,
\* mu_in as they are at the call
refactorize_diag(s) ==
    [i \in 1..(s.n + s.n_eq + s.n_in) |->
        IF i <= s.n THEN s.rho
        ELSE IF i <= s.n + s.n_eq THEN RNeg(RInv(s.mu_eq))
        ELSE IF s.active_constraints[i - s.n - s.n_eq] THEN RNeg(RInv(s.mu_in))
        ELSE One] \o <<>>

\* refactorize(): ldl becomes the factorization of kkt_active (its columns
\* as counted by kkt_nnz_counts) with the diagonal above.  ldl records what
\* the factorization was built from: the diagonal per slot and the stored
\* count per inequality column.
refactorize(s) ==
    [s EXCEPT !.ldl = [diag |-> refactorize_diag(s), kkt |-> s.kkt_nnz_counts],
              !.sweep_ops = Append(@, <<"refactorize", 0>>)]

\* sparse_ldlt::add_row(ldl, etree, perm_inv, idx, new_col, diag_element):
\* row and column idx enter the factorization with diag_element
add_row(ldl, i, idx, col_nnz, diag_element) ==
    [ldl EXCEPT !.diag[idx] = diag_element, !.kkt[i] = col_nnz]
\* sparse_ldlt::delete_row(ldl, etree, perm_inv, idx): d_kk = 1 and the
\* column is removed
delete_row(ldl, i, idx) ==
    [ldl EXCEPT !.diag[idx] = One, !.kkt[i] = 0]

\* the loop conditions of qp_solve
outer_loop_continues(s) == s.iter < s.settings.max_iter
inner_loop_one_more(s) == s.iter_inner <= s.settings.max_iter_in
inner_loop_continues(s) == s.iter_inner < s.settings.max_iter_in
refinement_continues(s) == s.solve_iter < s.settings.nb_iterative_refinement

\* w = (x, y, z) as one vector of length n_tot
xyz(s) == s.x \o s.y \o s.z

\* QpWorkspace::setup_impl(qp) (called by qp_setup): the columns of H, AT
\* and CT are copied, one block after the other, into the kkt matrix of the
\* workspace
setup_impl(qp) == [H |-> qp.H, AT |-> qp.AT, CT |-> qp.CT]

\* the workspace's kkt matrix when qp_solve is left: H_scaled, AT_scaled and
\* CT_scaled are views of its columns, scaled in place
kkt_mut(s) == [H |-> s.qp_scaled.H, AT |-> s.qp_scaled.AT, CT |-> s.qp_scaled.CT]

\* the locals of qp_solve once the QP is scaled (scaled is <<precond, the
\* scaled qp>>), before the first refactorize()
qp_solve_locals(P, qp, settings, scaled, x, y, z) ==
    [pc |-> IF settings.warm_start THEN "outer" ELSE "solve",
     P |-> P, precond |-> scaled[1], qp |-> qp, qp_scaled |-> scaled[2],
     settings |-> settings,
     n |-> Len(qp.g), n_eq |-> Len(qp.b), n_in |-> Len(qp.u),
     rho |-> R(1, 1000000), mu_eq |-> Q(1000), mu_in |-> Q(10),
     bcl_eta_ext_init |-> RPow(R(1, 10), settings.alpha_bcl),
     bcl_eta_ext |-> RPow(R(1, 10), settings.alpha_bcl),
     bcl_eta_in |-> One,
     eps_in_min |-> RMin(settings.eps_abs, R(1, 1000000000)),
     x |-> x, y |-> y, z |-> z,
     x_prev |-> <<>>, y_prev |-> <<>>, z_prev |-> <<>>,
     primal_residual_eq_scaled |-> <<>>,
     primal_residual_in_scaled_lo |-> <<>>,
     primal_residual_in_scaled_up |-> <<>>,
     dual_residual_scaled |-> <<>>,
     primal_feasibility_lhs |-> Zero,
     dual_feasibility_lhs |-> Zero,
     primal_feasibility_lhs_new |-> Zero,
     dual_feasibility_lhs_new |-> Zero,
     active_constraints |-> [i \in 1..Len(qp.u) |-> FALSE],
     kkt_nnz_counts |-> [i \in 1..Len(qp.u) |-> 0],
     kkt_active_nnz |-> Cardinality(DOMAIN scaled[2].H.e)
                        + Cardinality(DOMAIN scaled[2].AT.e),
     ldl |-> <<>>, sweep_ops |-> <<>>,
     rhs |-> (VNeg(scaled[2].g) \o scaled[2].b) \o ZeroVec(Len(qp.u)),
     iter |-> 0, iter_inner |-> 0,
     solve_for |-> IF settings.warm_start THEN "none" ELSE "init",
     solve_iter |-> 0, sol |-> ZeroVec(Len(qp.g) + Len(qp.b) + Len(qp.u)),
     prev_err_norm |-> Inf(1),
     dw |-> <<>>, Hdx |-> <<>>, Adx |-> <<>>, ATdy |-> <<>>, Cdx |-> <<>>, CTdz |-> <<>>,
     alphas |-> <<>>, walk_i |-> 0, walk_evals |-> 0,
     last_neg_grad |-> Zero, alpha_last_neg |-> Zero,
     first_pos_grad |-> Zero, alpha_first_pos |-> Inf(1),
     alpha |-> One,
     new_bcl_mu_eq |-> Q(1000), new_bcl_mu_in |-> Q(10),
     inner_runs |-> 0,
     exit |-> "none", inner_exit |-> "none", passed |-> <<>>]

\* qp_solve up to the initial guess: scaling, the proximal parameters, the
\* BCL thresholds and the first factorization.  kkt is work.kkt_mut() as the
\* call finds it; g, b, l, u are copied from qp, and the sizes are qp's
qp_solve_entry(P, kkt, qp, settings, x, y, z) ==
    The({ refactorize(s0)
          : s0 \in { qp_solve_locals(P, qp, settings, scaled, x, y, z)
                     : scaled \in {P_scale_qp_in_place(
                                       P, RuizCtor(Len(qp.g), Len(qp.b) + Len(qp.u)),
                                       [H |-> kkt.H, g |-> qp.g, AT |-> kkt.AT, b |-> qp.b,
                                        CT |-> kkt.CT, l |-> qp.l, u |-> qp.u])} } })

\* the residual vectors that unscaled_primal_residual() (record pr) and
\* unscaled_dual_residual() (record du) leave behind
residuals_written(s, pr, du) ==
    [s EXCEPT !.primal_residual_eq_scaled = pr.primal_residual_eq_scaled,
              !.primal_residual_in_scaled_up = pr.primal_residual_in_scaled_up,
              !.primal_residual_in_scaled_lo = pr.primal_residual_in_scaled_lo,
              !.dual_residual_scaled = du.dual_residual_scaled]

\* the snapshot x_prev, y_prev, z_prev and the shifted inequality residuals
\* Cx + 1/mu_in * z_prev - l and Cx + 1/mu_in * z_prev - u
outer_shift(s) ==
    The({ [s EXCEPT !.pc = "inner",
                    !.inner_runs = @ + 1, !.inner_exit = "none",
                    !.x_prev = s.x, !.y_prev = s.y, !.z_prev = s.z,
                    !.primal_residual_in_scaled_lo = VSub(shifted, s.qp_scaled.l),
                    !.primal_residual_in_scaled_up = VSub(shifted, s.qp_scaled.u),
                    !.iter_inner = 0]
          : shifted \in {VAdd(s.primal_residual_in_scaled_up,
                              VScale(RInv(s.mu_in), s.z))} })

\* the first lines of an outer iteration (iter < max_iter): the residuals,
\* the convergence test and break, else the snapshot of x, y, z and the
\* shifted inequality residuals
outer_head(s) ==
    The({ The({ IF converged(s, r[1], r[2])
                THEN [s1 EXCEPT !.pc = "unscale", !.exit = "converged",
                                !.passed = <<s.x, s.y, s.z>>]
                ELSE outer_shift(s1)
                : s1 \in {[residuals_written(s, r[1], r[2])
                             EXCEPT !.new_bcl_mu_eq = s.mu_eq,
                                    !.new_bcl_mu_in = s.mu_in,
                                    !.primal_feasibility_lhs = r[1].lhs,
                                    !.dual_feasibility_lhs = r[2].lhs]} })
          : r \in {<<unscaled_primal_residual(s), unscaled_dual_residual(s)>>} })

\* the conditions of the two branches of the sweep
activates_any(was_active, is_active) == is_active
activates(was_active, is_active) == is_active /\ ~was_active
deactivates_never(was_active, is_active) == FALSE
deactivates(was_active, is_active) == ~is_active /\ was_active
\* col_nnz of the sweep: kkt.col_end(idx) - kkt.col_start(idx), the stored
\* entries of column i of CT
col_nnz(s, i) == Cardinality({e \in DOMAIN s.qp_scaled.CT.e : e[2] = i})

\* the rows i, ..., n_in of the sweep over the inequalities: add_row for a
\* row that becomes active, delete_row for one that becomes inactive
RECURSIVE sweep(_, _, _)
sweep(s, new_active_constraints, i) ==
    IF i > s.n_in THEN s
    ELSE The({ sweep(s1, new_active_constraints, i + 1)
               : s1 \in {IF activates(s.active_constraints[i], new_active_constraints[i])
                         THEN [s EXCEPT
                                 !.kkt_nnz_counts[i] = col_nnz(s, i),
                                 !.kkt_active_nnz = @ + col_nnz(s, i),
                                 !.ldl = add_row(@, i, s.n + s.n_eq + i, col_nnz(s, i),
                                                 RNeg(RInv(s.mu_in))),
                                 !.active_constraints[i] = new_active_constraints[i],
                                 !.sweep_ops = Append(@, <<"add_row", i>>)]
                         ELSE IF deactivates(s.active_constraints[i],
                                             new_active_constraints[i])
                         THEN [s EXCEPT
                                 !.kkt_nnz_counts[i] = 0,
                                 !.kkt_active_nnz = @ - col_nnz(s, i),
                                 !.ldl = delete_row(@, i, s.n + s.n_eq + i),
                                 !.active_constraints[i] = new_active_constraints[i],
                                 !.sweep_ops = Append(@, <<"delete_row", i>>)]
                         ELSE s} })

\* if (added || removed) refactorize()
refactorize_on_add_only(added, removed) == added
sweep_refactorizes(added, removed) == added \/ removed

\* active_set_up(i) and active_set_lo(i)
active_set_up(s, i) == RLe(Zero, s.primal_residual_in_scaled_up[i])
active_set_lo(s, i) == RLe(s.primal_residual_in_scaled_lo[i], Zero)

\* rhs.head(n) += z_e(i) * C_scaled_e.row(i) for the inactive rows i, ..., n_in
RECURSIVE newton_rhs_head(_, _, _)
newton_rhs_head(rhs_head, s, i) ==
    IF i > s.n_in THEN rhs_head
    ELSE The({ newton_rhs_head(h, s, i + 1)
               : h \in {IF active_set_up(s, i) \/ active_set_lo(s, i)
                        THEN rhs_head
                        ELSE [j \in 1..s.n |->
                                IF <<j, i>> \in DOMAIN s.qp_scaled.CT.e
                                THEN RAdd(rhs_head[j],
                                          RMul(s.z[i], s.qp_scaled.CT.e[<<j, i>>]))
                                ELSE rhs_head[j]] \o <<>>} })

\* the right-hand side of the Newton system, built from active_set_up and
\* active_set_lo
newton_rhs(s) ==
    (newton_rhs_head(VNeg(s.dual_residual_scaled), s, 1)
        \o VNeg(s.primal_residual_eq_scaled))
       \o ([i \in 1..s.n_in |->
            IF active_set_up(s, i)
            THEN RSub(RMul(RInv(s.mu_in), s.z[i]), s.primal_residual_in_scaled_up[i])
            ELSE IF active_set_lo(s, i)
            THEN RSub(RMul(RInv(s.mu_in), s.z[i]), s.primal_residual_in_scaled_lo[i])
            ELSE RNeg(s.z[i])] \o <<>>)

\* added and removed of the sweep, read from the operations it made
sweep_added(s) == \E k \in 1..Len(s.sweep_ops) : s.sweep_ops[k][1] = "add_row"
sweep_removed(s) == \E k \in 1..Len(s.sweep_ops) : s.sweep_ops[k][1] = "delete_row"

\* the top of a Newton iteration: the active-set sweep (add_row / delete_row
\* for every row whose activity changed, then refactorize() if any did) and
\* the right-hand side handed to ldl_solve_in_place
active_set_change(s) ==
    The({ [(IF s.n_in > 0 /\ sweep_refactorizes(sweep_added(s1), sweep_removed(s1))
            THEN refactorize(s1)
            ELSE s1)
             EXCEPT !.pc = "solve", !.solve_for = "newton", !.solve_iter = 0,
                    !.prev_err_norm = Inf(1),
                    !.sol = ZeroVec(s.n + s.n_eq + s.n_in),
                    !.rhs = newton_rhs(s)]
          : s1 \in { IF s.n_in > 0 THEN sweep(s0, nac, 1) ELSE s0
                     : s0 \in {[s EXCEPT !.sweep_ops = <<>>]},
                       nac \in {[i \in 1..s.n_in |->
                                   active_set_lo(s, i) \/ active_set_up(s, i)] \o <<>>} } })

\* C_active.transpose(): the columns of CT that kkt_active holds, those of
\* the active rows
CT_active(s) ==
    [s.qp_scaled.CT EXCEPT !.e =
        [q \in {q \in DOMAIN s.qp_scaled.CT.e : s.kkt_nnz_counts[q[2]] > 0} |->
            s.qp_scaled.CT.e[q]]]

\* the parts of the right-hand side and of sol
rhs_x(s) == head(s.rhs, s.n)
rhs_y(s) == middleRows(s.rhs, s.n, s.n_eq)
rhs_z(s) == tail(s.rhs, s.n_in)
sol_x(s) == head(s.sol, s.n)
sol_y(s) == middleRows(s.sol, s.n, s.n_eq)
sol_z(s) == tail(s.sol, s.n_in)

\* err_z of ldl_iter_solve_noalias: -rhs_z in the first pass, afterwards
\* err_z += C_active * sol_x; err_z[i] += (active ? -1/mu_in : 1) * sol_z[i]
err_z(s) ==
    IF s.solve_iter > 0
    THEN The({ [i \in 1..s.n_in |->
                  RAdd(e[i], RMul(IF s.active_constraints[i]
                                  THEN RNeg(RInv(s.mu_in)) ELSE One,
                                  sol_z(s)[i]))] \o <<>>
               : e \in {MatTVecAdd(VNeg(rhs_z(s)), CT_active(s), sol_x(s))} })
    ELSE VNeg(rhs_z(s))

\* err_x: -rhs_x in the first pass, afterwards noalias_symhiv_add(err_x, H,
\* sol_x); err_x += rho * sol_x; err_x += A^T sol_y; err_x += C_active^T sol_z
err_x(s) ==
    IF s.solve_iter > 0
    THEN MatVecAdd(
           MatVecAdd(VAdd(noalias_symhiv_add(VNeg(rhs_x(s)), s.qp_scaled.H, sol_x(s)),
                          VScale(s.rho, sol_x(s))),
                     s.qp_scaled.AT, sol_y(s)),
           CT_active(s), sol_z(s))
    ELSE VNeg(rhs_x(s))
\* err_y: -rhs_y in the first pass, afterwards err_y += A sol_x;
\* err_y += (-1 / mu_eq) * sol_y
err_y(s) ==
    IF s.solve_iter > 0
    THEN VAdd(MatTVecAdd(VNeg(rhs_y(s)), s.qp_scaled.AT, sol_x(s)),
              VScale(RNeg(RInv(s.mu_eq)), sol_y(s)))
    ELSE VNeg(rhs_y(s))

\* the entry (i, j), i <= j, of kkt_active as ldl holds it: H, the columns
\* of AT, and the columns of CT that were stored when ldl was built
kkt_entry(s, i, j) ==
    IF j <= s.n THEN Entry(s.qp_scaled.H, i, j)
    ELSE IF i > s.n THEN Zero
    ELSE IF j <= s.n + s.n_eq THEN Entry(s.qp_scaled.AT, i, j - s.n)
    ELSE IF s.ldl.kkt[j - s.n - s.n_eq] > 0
    THEN Entry(s.qp_scaled.CT, i, j - s.n - s.n_eq)
    ELSE Zero
\* the symmetric matrix that ldl factorizes: kkt_active plus the diagonal
\* handed to the factorization
ldl_matrix(s) ==
    [i \in 1..(s.n + s.n_eq + s.n_in) |->
        [j \in 1..(s.n + s.n_eq + s.n_in) |->
            IF i = j THEN RAdd(kkt_entry(s, i, i), s.ldl.diag[i])
            ELSE IF i < j THEN kkt_entry(s, i, j)
            ELSE kkt_entry(s, j, i)] \o <<>>] \o <<>>

\* the backward substitution of one row: x1 -= l(i) * x(i), i ascending
RECURSIVE ldl_back(_, _, _, _)
ldl_back(x1, l, x, i) ==
    IF i > Len(l) THEN x1
    ELSE The({ ldl_back(t, l, x, i + 1) : t \in {RSub(x1, RMul(l[i], x[i]))} })
\* K = L D L^T and the solve of K x = r, in doubles: the first column of L
\* is K(., 1) / d, d = K(1, 1); the rest of K and of r are updated with it
\* (the forward substitution) and solved; x(1) = r(1) / d, less the
\* backward substitution
RECURSIVE ldl_solve_dense(_, _)
ldl_solve_dense(K, r) ==
    IF Len(r) = 1 THEN <<RDiv(r[1], K[1][1])>>
    ELSE The({ The({ <<ldl_back(RDiv(r[1], K[1][1]), l, x, 1)>> \o x
                     : x \in { ldl_solve_dense(p[1], p[2])
                               : p \in {<<[i \in 1..(Len(r) - 1) |->
                                            [j \in 1..(Len(r) - 1) |->
                                               RSub(K[i + 1][j + 1],
                                                    RMul(l[i], K[1][j + 1]))] \o <<>>] \o <<>>,
                                          [i \in 1..(Len(r) - 1) |->
                                             RSub(r[i + 1], RMul(l[i], r[1]))] \o <<>> >>} } })
               : l \in {[i \in 1..(Len(r) - 1) |-> RDiv(K[i + 1][1], K[1][1])] \o <<>>} })
\* ldl_solve(sol, rhs): the solve with the factorization ldl
ldl_solve(s, rhs) ==
    The({ ldl_solve_dense(p[1], p[2]) : p \in {<<ldl_matrix(s), rhs>>} })

\* err as a pass of ldl_iter_solve_noalias builds it
refinement_err(s) == (err_x(s) \o err_y(s)) \o err_z(s)

\* one pass of the refinement loop of ldl_iter_solve_noalias: err is built,
\* the norm of its inequality rows is tested against the one of the pass
\* before, ldl_solve(err, err) overwrites err, and sol_e -= err
refinement_pass(s) ==
    The({ IF RLt(s.prev_err_norm, infty_norm(tail(err, s.n_in)))
          THEN [s EXCEPT !.pc = "solved"]
          ELSE [s EXCEPT !.prev_err_norm = infty_norm(tail(err, s.n_in)),
                         !.sol = VSub(s.sol, ldl_solve(s, err)),
                         !.solve_iter = @ + 1]
          : err \in {refinement_err(s)} })

\* the sorted, duplicate-free sequence of a finite set of numbers
RECURSIVE SortedSeq(_)
SortedSeq(S) ==
    IF S = {} THEN <<>>
    ELSE The({ <<m>> \o SortedSeq(S \ {m})
               : m \in {CHOOSE x \in S : \A y \in S : RLe(x, y)} })

\* the breakpoints of the line search: the candidates -lo(i) / Cdx(i) and
\* -up(i) / Cdx(i) that are > 0, sorted and made unique.  A division by
\* Cdx(i) = 0 gives an infinity, or a NaN, which no comparison keeps
line_search_breakpoints(s, Cdx) ==
    SortedSeq({ a \in { RDiv(RNeg(r[i]), Cdx[i])
                        : r \in {s.primal_residual_in_scaled_lo,
                                 s.primal_residual_in_scaled_up},
                          i \in 1..s.n_in }
                : RLt(Zero, a) })

\* the parts of the Newton direction dw
dx(s) == head(s.dw, s.n)
dy(s) == middleRows(s.dw, s.n, s.n_eq)
dz(s) == tail(s.dw, s.n_in)

\* the Newton direction is there: Hdx, Adx, ATdy, Cdx, CTdz, and the line
\* search up to its walk, which is entered if (alphas_count > 0 &&
\* alphas[0] <= 1); else alpha stays 1
newton_direction(s) ==
    The({ The({ [s EXCEPT !.pc = IF s.n_in > 0 /\ Len(al) > 0 /\ RLe(al[1], One)
                                 THEN "walk" ELSE "step",
                          !.Hdx = d[1], !.Adx = d[2], !.ATdy = d[3],
                          !.Cdx = d[4], !.CTdz = d[5],
                          !.alphas = al, !.walk_i = 0, !.walk_evals = 0,
                          !.last_neg_grad = Zero, !.alpha_last_neg = Zero,
                          !.first_pos_grad = Zero, !.alpha_first_pos = Inf(1),
                          !.alpha = One]
                : al \in {IF s.n_in > 0 THEN line_search_breakpoints(s, d[4]) ELSE <<>>} })
          : d \in {<<SymHiVec(s.qp_scaled.H, dx(s)),
                     MatTVec(s.qp_scaled.AT, dx(s)),
                     MatVec(s.qp_scaled.AT, dy(s)),
                     MatTVec(s.qp_scaled.CT, dx(s)),
                     MatVec(s.qp_scaled.CT, dz(s))>>} })

\* ldl_solve_in_place has returned: the initial guess is copied to x, y, z;
\* a Newton direction dw goes on to the line search
solve_return(s) ==
    IF s.solve_for = "init"
    THEN [s EXCEPT !.pc = "outer", !.solve_for = "none",
                   !.x = head(s.sol, s.n),
                   !.y = middleRows(s.sol, s.n, s.n_eq),
                   !.z = tail(s.sol, s.n_in)]
    ELSE The({ newton_direction(s1)
               : s1 \in {[s EXCEPT !.dw = s.sol, !.solve_for = "none"]} })

\* a of primal_dual_gradient_norm (nu = 1)
gradient_a(s, Cdx_active) ==
    RAdd(RAdd(RAdd(RAdd(RAdd(Dot(dx(s), s.Hdx),
                             RMul(s.rho, SquaredNorm(dx(s)))),
                        RMul(s.mu_eq, SquaredNorm(s.Adx))),
                   RMul(s.mu_in, SquaredNorm(Cdx_active))),
              RMul(RInv(s.mu_eq),
                   SquaredNorm(VSub(VScale(s.mu_eq, s.Adx), dy(s))))),
         RMul(RInv(s.mu_in),
              SquaredNorm(VSub(VScale(s.mu_in, Cdx_active), dz(s)))))
\* b of primal_dual_gradient_norm (nu = 1, the products by nu are exact)
gradient_b(s, Cdx_active, active_part_z) ==
    RAdd(RAdd(RAdd(RAdd(RAdd(Dot(s.x, s.Hdx),
                             Dot(VAdd(VScale(s.rho, VSub(s.x, s.x_prev)), s.qp_scaled.g),
                                 dx(s))),
                        Dot(s.Adx, VAdd(VScale(s.mu_eq, s.primal_residual_eq_scaled), s.y))),
                   RMul(s.mu_in, Dot(Cdx_active, active_part_z))),
              Dot(s.primal_residual_eq_scaled,
                  VSub(VScale(s.mu_eq, s.Adx), dy(s)))),
         Dot(VSub(active_part_z, VScale(RInv(s.mu_in), s.z)),
             VSub(VScale(s.mu_in, Cdx_active), dz(s))))

\* primal_dual_gradient_norm(alpha_cur): a, b and grad = a * alpha_cur + b.
\* t holds tmp_lo and tmp_up, v holds Cdx_active and active_part_z
primal_dual_gradient_norm(s, alpha_cur) ==
    The({ The({ The({ [a |-> ab[1], b |-> ab[2],
                       grad |-> RAdd(RMul(ab[1], alpha_cur), ab[2])]
                      : ab \in {<<gradient_a(s, v[1]), gradient_b(s, v[1], v[2])>>} })
                : v \in {<<[i \in 1..s.n_in |->
                              IF RLt(t[1][i], Zero) \/ RLt(Zero, t[2][i])
                              THEN s.Cdx[i] ELSE Zero] \o <<>>,
                           [i \in 1..s.n_in |->
                              RAdd(IF RLt(t[1][i], Zero)
                                   THEN s.primal_residual_in_scaled_lo[i] ELSE Zero,
                                   IF RLt(Zero, t[2][i])
                                   THEN s.primal_residual_in_scaled_up[i] ELSE Zero)] \o <<>> >>} })
          : t \in {<<VAdd(s.primal_residual_in_scaled_lo, VScale(alpha_cur, s.Cdx)),
                     VAdd(s.primal_residual_in_scaled_up, VScale(alpha_cur, s.Cdx))>>} })

\* primal_dual_gradient_norm at each of the points pts
gradient_norms(s, pts) ==
    [k \in 1..Len(pts) |-> primal_dual_gradient_norm(s, pts[k])] \o <<>>

\* the step length once the walk is over, ev the gradient at alpha_last_neg
\* and at 2 * alpha_last_neg + 1: if (alpha_last_neg == 0) last_neg_grad =
\* grad(alpha_last_neg); if (alpha_first_pos == infty) alpha = -res.b / res.a
\* else the interpolation between alpha_last_neg and alpha_first_pos, or
\* alpha_first_pos if (alpha_last_neg == 0 && alpha_first_pos < 1)
line_search_alpha(s) ==
    The({ The({ [s EXCEPT
                   !.pc = "step",
                   !.last_neg_grad = last_neg_grad,
                   !.alpha =
                      IF s.alpha_first_pos = Inf(1)
                      THEN RDiv(RNeg(ev[2].b), ev[2].a)
                      ELSE IF s.alpha_last_neg = Zero /\ RLt(s.alpha_first_pos, One)
                      THEN s.alpha_first_pos
                      ELSE RSub(s.alpha_last_neg,
                                RDiv(RMul(last_neg_grad,
                                          RSub(s.alpha_first_pos, s.alpha_last_neg)),
                                     RSub(s.first_pos_grad, last_neg_grad)))]
                : last_neg_grad \in {IF s.alpha_last_neg = Zero
                                     THEN ev[1].grad ELSE s.last_neg_grad} })
          : ev \in {gradient_norms(s, <<s.alpha_last_neg,
                                        RAdd(RMul(Q(2), s.alpha_last_neg), One)>>)} })

\* one evaluation of the walk over the breakpoints: gr < 0 moves on, anything
\* else is the first breakpoint with a non-negative gradient, ends the walk
\* and gives the step length
line_search_walk(s) ==
    The({ IF RLt(ev[1].grad, Zero)
          THEN [s EXCEPT !.alpha_last_neg = s.alphas[s.walk_i + 1],
                         !.last_neg_grad = ev[1].grad,
                         !.walk_i = @ + 1, !.walk_evals = @ + 1]
          ELSE The({ line_search_alpha(s1)
                     : s1 \in {[s EXCEPT !.first_pos_grad = ev[1].grad,
                                         !.alpha_first_pos = s.alphas[s.walk_i + 1],
                                         !.walk_evals = @ + 1]} })
          : ev \in {gradient_norms(s, <<s.alphas[s.walk_i + 1]>>)} })

\* every breakpoint had a negative gradient: alpha_first_pos == infty and
\* alpha = -res.b / res.a
line_search_walk_end(s) == line_search_alpha(s)

\* err_in of the inner loop, from the residuals kept in s
err_in(s) ==
    RMax(RMax(infty_norm(VSub(VAdd(negative_part(s.primal_residual_in_scaled_lo),
                                   positive_part(s.primal_residual_in_scaled_up)),
                              VScale(RInv(s.mu_in), s.z))),
              infty_norm(s.primal_residual_eq_scaled)),
         infty_norm(s.dual_residual_scaled))

\* the test of the small-step return: alpha * infty_norm(dw) < 1e-11 && iter > 0
step_is_small(s) == RLt(RMul(s.alpha, infty_norm(s.dw)), TenToMinus(11))
small_step(s) == step_is_small(s) /\ s.iter > 0

\* an update of the dual residual that leaves out rho * dx
dual_residual_step_without_rho(s) ==
    VAdd(s.dual_residual_scaled,
         VScale(s.alpha, VAdd(VAdd(s.Hdx, s.ATdy), s.CTdz)))
\* dual_residual_scaled += alpha * (Hdx + ATdy + CTdz + rho * dx)
dual_residual_step(s) ==
    VAdd(s.dual_residual_scaled,
         VScale(s.alpha, VAdd(VAdd(VAdd(s.Hdx, s.ATdy), s.CTdz), VScale(s.rho, dx(s)))))

\* x, y, z and the residuals after the step alpha * dw
newton_update(s) ==
    [s EXCEPT !.x = VAdd(s.x, VScale(s.alpha, dx(s))),
              !.y = VAdd(s.y, VScale(s.alpha, dy(s))),
              !.z = VAdd(s.z, VScale(s.alpha, dz(s))),
              !.dual_residual_scaled = dual_residual_step(s),
              !.primal_residual_eq_scaled =
                  VAdd(s.primal_residual_eq_scaled,
                       VScale(s.alpha, VSub(s.Adx, VScale(RInv(s.mu_eq), dy(s))))),
              !.primal_residual_in_scaled_lo =
                  VAdd(s.primal_residual_in_scaled_lo, VScale(s.alpha, s.Cdx)),
              !.primal_residual_in_scaled_up =
                  VAdd(s.primal_residual_in_scaled_up, VScale(s.alpha, s.Cdx))]

\* the rest of a Newton iteration: the small-step return, the update of
\* x, y, z and of the residuals, and the return on err_in <= bcl_eta_in
newton_step(s) ==
    IF small_step(s)
    THEN [s EXCEPT !.pc = "post", !.inner_exit = "small_step"]
    ELSE The({ IF RLe(err_in(s1), s.bcl_eta_in)
               THEN [s1 EXCEPT !.pc = "post", !.inner_exit = "err_in"]
               ELSE [s1 EXCEPT !.pc = "inner", !.iter_inner = @ + 1]
               : s1 \in {newton_update(s)} })

\* the inner loop has run out of iterations
inner_exhausted(s) == [s EXCEPT !.pc = "post", !.inner_exit = "max_iter_in"]

\* bcl_update() that leaves the multipliers of a rejected step in place
bcl_update_keeps_duals(s, primal_feasibility_lhs_new) ==
    IF RLe(primal_feasibility_lhs_new, s.bcl_eta_ext)
    THEN [s EXCEPT !.bcl_eta_ext =
                      RMul(@, RInv(RPow(s.mu_in, s.settings.beta_bcl))),
                   !.bcl_eta_in = RMax(RDiv(s.bcl_eta_in, s.mu_in), s.eps_in_min)]
    ELSE The({ [s EXCEPT !.new_bcl_mu_in = m[1],
                         !.new_bcl_mu_eq = m[2],
                         !.bcl_eta_ext =
                            RDiv(s.bcl_eta_ext_init, RPow(m[1], s.settings.alpha_bcl)),
                         !.bcl_eta_in = RInv(RMax(m[1], s.eps_in_min))]
               : m \in {<<RMin(RMul(s.mu_in, s.settings.mu_update_factor),
                               s.settings.mu_max_in),
                          RMin(RMul(s.mu_eq, s.settings.mu_update_factor),
                               s.settings.mu_max_eq)>>} })

\* bcl_update(): an accepted step tightens bcl_eta_ext and bcl_eta_in; a
\* rejected one restores y and z, raises the penalties up to their caps and
\* resets the thresholds
bcl_update(s, primal_feasibility_lhs_new) ==
    IF RLe(primal_feasibility_lhs_new, s.bcl_eta_ext)
    THEN [s EXCEPT !.bcl_eta_ext =
                      RMul(@, RInv(RPow(s.mu_in, s.settings.beta_bcl))),
                   !.bcl_eta_in = RMax(RDiv(s.bcl_eta_in, s.mu_in), s.eps_in_min)]
    ELSE The({ [s EXCEPT !.y = s.y_prev, !.z = s.z_prev,
                         !.new_bcl_mu_in = m[1],
                         !.new_bcl_mu_eq = m[2],
                         !.bcl_eta_ext =
                            RDiv(s.bcl_eta_ext_init, RPow(m[1], s.settings.alpha_bcl)),
                         !.bcl_eta_in = RInv(RMax(m[1], s.eps_in_min))]
               : m \in {<<RMin(RMul(s.mu_in, s.settings.mu_update_factor),
                               s.settings.mu_max_in),
                          RMin(RMul(s.mu_eq, s.settings.mu_update_factor),
                               s.settings.mu_max_eq)>>} })

\* a cold reset that does not look at mu_in
cold_reset_any_mu(s, du) ==
    IF /\ RLe(s.primal_feasibility_lhs, s.primal_feasibility_lhs_new)
       /\ RLe(s.primal_feasibility_lhs, du.lhs)
    THEN [s EXCEPT !.dual_residual_scaled = du.dual_residual_scaled,
                   !.dual_feasibility_lhs_new = du.lhs,
                   !.new_bcl_mu_in = s.settings.cold_reset_mu_in,
                   !.new_bcl_mu_eq = s.settings.cold_reset_mu_eq]
    ELSE [s EXCEPT !.dual_residual_scaled = du.dual_residual_scaled,
                   !.dual_feasibility_lhs_new = du.lhs]

\* dual_feasibility_lhs_new = unscaled_dual_residual(), the record du, and
\* the cold reset of the penalties: the new dual feasibility is compared,
\* as in the code, with the primal feasibility of the start of the iteration
cold_reset(s, du) ==
    IF /\ RLe(s.primal_feasibility_lhs, s.primal_feasibility_lhs_new)
       /\ RLe(s.primal_feasibility_lhs, du.lhs)
       /\ RLe(Q(100000), s.mu_in)
    THEN [s EXCEPT !.dual_residual_scaled = du.dual_residual_scaled,
                   !.dual_feasibility_lhs_new = du.lhs,
                   !.new_bcl_mu_in = s.settings.cold_reset_mu_in,
                   !.new_bcl_mu_eq = s.settings.cold_reset_mu_eq]
    ELSE [s EXCEPT !.dual_residual_scaled = du.dual_residual_scaled,
                   !.dual_feasibility_lhs_new = du.lhs]

\* mu_update() that stores each new penalty in the other one
mu_update_swapped(s) ==
    IF s.mu_in # s.new_bcl_mu_in \/ s.mu_eq # s.new_bcl_mu_eq
    THEN [refactorize(s) EXCEPT !.mu_eq = s.new_bcl_mu_in, !.mu_in = s.new_bcl_mu_eq]
    ELSE s

\* the end of an outer iteration: mu_update() refactorizes, then the new
\* penalties are stored
mu_update(s) ==
    IF s.mu_in # s.new_bcl_mu_in \/ s.mu_eq # s.new_bcl_mu_eq
    THEN [refactorize(s) EXCEPT !.mu_eq = s.new_bcl_mu_eq, !.mu_in = s.new_bcl_mu_in]
    ELSE s

\* the end of an outer iteration that did not converge: bcl_update(), the
\* dual residual again, the cold reset, mu_update() and ++iter
outer_tail(s) ==
    The({ The({ The({ [s3 EXCEPT !.pc = "outer", !.iter = @ + 1]
                      : s3 \in {mu_update(s2)} })
                : s2 \in {cold_reset(s1, unscaled_dual_residual(s1))} })
          : s1 \in {bcl_update(s, s.primal_feasibility_lhs_new)} })

\* an outer iteration after primal_dual_newton_semi_smooth() has returned:
\* the residuals, the second convergence test and break, else the end of
\* the iteration
post_inner(s) ==
    The({ The({ IF converged(s, r[1], r[2])
                THEN [s1 EXCEPT !.pc = "unscale", !.exit = "converged",
                                !.passed = <<s.x, s.y, s.z>>]
                ELSE outer_tail(s1)
                : s1 \in {[residuals_written(s, r[1], r[2])
                             EXCEPT !.primal_feasibility_lhs_new = r[1].lhs,
                                    !.dual_feasibility_lhs_new = r[2].lhs]} })
          : r \in {<<unscaled_primal_residual(s), unscaled_dual_residual(s)>>} })

\* the outer loop has run out of iterations
outer_exhausted(s) == [s EXCEPT !.pc = "unscale", !.exit = "max_iter"]

\* the last three lines of qp_solve
final_unscale(s) ==
    [s EXCEPT !.pc = "unscaled",
              !.x = P_unscale_primal_in_place(s.P, s.precond, s.x),
              !.y = P_unscale_dual_in_place_eq(s.P, s.precond, s.y),
              !.z = P_unscale_dual_in_place_in(s.P, s.precond, s.z)]

(***************************************************************************)
(* The solves that are run.  Three QPs                                     *)
(*     minimise 1/2 x'Hx + g'x  subject to  Ax = b,  l <= Cx <= u.         *)
(* QA (x = 1, z = 1) and QB (x = (1, 1), y = 1, z = 1) have one inequality *)
(* row, active at the solution.  QC has two inequality rows and the        *)
(* interior solution x = 2: warm-started from zero, both rows are active   *)
(* at first and leave the active set on the way.                           *)
(***************************************************************************)
QA ==
    [qp |-> [H |-> Mat(1, 1, <<1, 1>> :> Q(4)), g |-> <<Q(-8)>>,
             AT |-> Mat(1, 0, <<>>), b |-> <<>>,
             CT |-> Mat(1, 1, <<1, 1>> :> Q(4)), l |-> <<Q(-4)>>, u |-> <<Q(4)>>]]
QB ==
    [qp |-> [H |-> Mat(2, 2, <<1, 1>> :> Q(4) @@ <<2, 2>> :> Q(4)),
             g |-> <<Q(-20), Q(-8)>>,
             AT |-> Mat(2, 1, <<1, 1>> :> Q(16)), b |-> <<Q(16)>>,
             CT |-> Mat(2, 1, <<2, 1>> :> Q(4)), l |-> <<Q(-4)>>, u |-> <<Q(4)>>]]
QC ==
    [qp |-> [H |-> Mat(1, 1, <<1, 1>> :> Q(4)), g |-> <<Q(-8)>>,
             AT |-> Mat(1, 0, <<>>), b |-> <<>>,
             CT |-> Mat(1, 2, <<1, 1>> :> Q(4) @@ <<1, 2>> :> Q(4)),
             l |-> <<Q(4), Q(6)>>, u |-> <<Q(12), Q(20)>>]]
Instances == {QA, QB, QC}
Preconditioners == {"Identity", "Ruiz"}

\* the largest settings.max_iter, max_iter_in and nb_iterative_refinement
MaxIter == 3
MaxIterIn == 2
NbRefinement == 2

\* Settings (alpha_bcl and beta_bcl are taken integer, so that pow is a
\* product)
SparseSettings ==
    { [max_iter |-> f[1], max_iter_in |-> MaxIterIn,
       nb_iterative_refinement |-> NbRefinement,
       eps_abs |-> f[2], eps_rel |-> f[3],
       warm_start |-> FALSE,
       alpha_bcl |-> 1, beta_bcl |-> 1,
       mu_update_factor |-> f[4], mu_max_eq |-> f[5], mu_max_in |-> f[6],
       cold_reset_mu_eq |-> R(11, 10), cold_reset_mu_in |-> R(11, 10)]
      : f \in { <<2, R(1, 1000), Zero, Q(2), Q(2000), Q(40)>>,
                <<2, R(1, 1000), R(1, 1000), Q(2), Q(2000), Q(40)>>,
                <<2, TenToMinus(15), Zero, Q(2), Q(2000), Q(40)>>,
                <<MaxIter, R(1, 1000), Zero, Q(10000), Q(10000000), Q(100000)>>,
                <<MaxIter, TenToMinus(9), Zero, Q(10000), Q(10000000), Q(100000)>> } }

\* a QP object as its constructor and qp_setup leave it
QpObject(inst, P, settings) ==
    [pc |-> "constructed", inst |-> inst, P |-> P, settings |-> settings,
     solves |-> 0,
     supplied |-> <<>>, warm_fixed |-> FALSE,
     kkt |-> setup_impl(inst.qp)]

SparseInit ==
    /\ sp \in { QpObject(inst, P, settings)
                : inst \in Instances, P \in Preconditioners, settings \in SparseSettings }
    /\ ResultsIdle /\ ScaleIdle /\ UpdateIdle /\ DenseIdle

\* the entry of qp_solve on the workspace and the QP of the object, with
\* x, y, z = start
Enter(warm, start) ==
    sp' = The({ s @@ [inst |-> sp.inst, solves |-> sp.solves + 1,
                      supplied |-> start,
                      warm_fixed |-> warm /\ sp.pc = "returned",
                      kkt |-> kkt_mut(s)]
                : s \in {qp_solve_entry(sp.P, sp.kkt, sp.inst.qp,
                                        [sp.settings EXCEPT !.warm_start = warm],
                                        start[1], start[2], start[3])} })
ZeroStart ==
    <<ZeroVec(Len(sp.inst.qp.g)), ZeroVec(Len(sp.inst.qp.b)), ZeroVec(Len(sp.inst.qp.u))>>
\* the starts of a second solve: cold, or, after a converged solve,
\* warm-started from the x, y, z it left
SecondStarts ==
    {<<FALSE, ZeroStart>>}
      \cup (IF sp.exit = "converged"
            THEN {<<TRUE, <<sp.x, sp.y, sp.z>> >>}
            ELSE {})

\* the first solve of a QP object: cold, or warm-started from zero
SpSolve ==
    /\ sp.pc = "constructed"
    /\ \E warm \in BOOLEAN : Enter(warm, ZeroStart)
    /\ SparseFrame

\* qp_setup(work, qp, precond) between two solves: the workspace's kkt is
\* filled from the QP again
SpSetup ==
    /\ sp.pc = "returned" /\ sp.solves = 1
    /\ sp' = [sp EXCEPT !.kkt = setup_impl(sp.inst.qp)]
    /\ SparseFrame

\* the second solve on the same workspace
SpSolveAgain ==
    /\ sp.pc = "returned" /\ sp.solves = 1
    /\ \E c \in SecondStarts : Enter(c[1], c[2])
    /\ SparseFrame

SpRefine ==
    /\ sp.pc = "solve" /\ refinement_continues(sp)
    /\ sp' = refinement_pass(sp)
    /\ SparseFrame

SpSolveReturn ==
    /\ sp.pc = "solved" \/ (sp.pc = "solve" /\ ~refinement_continues(sp))
    /\ sp' = solve_return(sp)
    /\ SparseFrame

SpOuterHead ==
    /\ sp.pc = "outer" /\ outer_loop_continues(sp)
    /\ sp' = outer_head(sp)
    /\ SparseFrame

SpOuterExhausted ==
    /\ sp.pc = "outer" /\ ~outer_loop_continues(sp)
    /\ sp' = outer_exhausted(sp)
    /\ SparseFrame

SpActiveSet ==
    /\ sp.pc = "inner" /\ inner_loop_continues(sp)
    /\ sp' = active_set_change(sp)
    /\ SparseFrame

SpInnerExhausted ==
    /\ sp.pc = "inner" /\ ~inner_loop_continues(sp)
    /\ sp' = inner_exhausted(sp)
    /\ SparseFrame

SpWalk ==
    /\ sp.pc = "walk" /\ sp.walk_i < Len(sp.alphas)
    /\ sp' = line_search_walk(sp)
    /\ SparseFrame

SpWalkEnd ==
    /\ sp.pc = "walk" /\ sp.walk_i = Len(sp.alphas)
    /\ sp' = line_search_walk_end(sp)
    /\ SparseFrame

SpStep ==
    /\ sp.pc = "step"
    /\ sp' = newton_step(sp)
    /\ SparseFrame

SpPost ==
    /\ sp.pc = "post"
    /\ sp' = post_inner(sp)
    /\ SparseFrame

SpUnscale ==
    /\ sp.pc = "unscale"
    /\ sp' = final_unscale(sp)
    /\ SparseFrame

\* the end of qp_solve: x, y, z hold the unscaled iterates of the caller
SpReturn ==
    /\ sp.pc = "unscaled"
    /\ sp' = [sp EXCEPT !.pc = "returned"]
    /\ SparseFrame

\* the steps inside a solve
SolveSteps ==
    \/ SpRefine \/ SpSolveReturn \/ SpOuterHead \/ SpOuterExhausted
    \/ SpActiveSet \/ SpInnerExhausted \/ SpWalk \/ SpWalkEnd \/ SpStep
    \/ SpPost \/ SpUnscale \/ SpReturn

SparseNext == SpSolve \/ SpSetup \/ SpSolveAgain \/ SolveSteps

SpecSparse == SparseInit /\ [][SparseNext]_vars

(***************************************************************************)
(* The outer loop of qp_solve over many iterations: the penalties reach    *)
(* the cold-reset threshold 1e5 only after rejected steps with a large     *)
(* mu_update_factor.                                                       *)
(***************************************************************************)
MaxIterBcl == 6

BclSettings ==
    { [max_iter |-> f[1], max_iter_in |-> f[2],
       nb_iterative_refinement |-> NbRefinement,
       eps_abs |-> f[3], eps_rel |-> Zero,
       warm_start |-> TRUE,
       alpha_bcl |-> f[4], beta_bcl |-> 1,
       mu_update_factor |-> f[5], mu_max_eq |-> Q(10000000), mu_max_in |-> Q(100000),
       cold_reset_mu_eq |-> R(11, 10), cold_reset_mu_in |-> R(11, 10)]
      : f \in { <<MaxIterBcl, MaxIterIn, R(1, 1000), 0, Q(10)>>,
                <<MaxIterBcl, MaxIterIn, R(1, 1000), 1, Q(10)>>,
                <<MaxIter, 1, TenToMinus(9), 1, Q(10000)>>,
                <<MaxIter, MaxIterIn, TenToMinus(9), 1, Q(10000)>> } }

BclInit ==
    /\ sp \in { QpObject(inst, P, settings)
                : inst \in Instances, P \in Preconditioners, settings \in BclSettings }
    /\ ResultsIdle /\ ScaleIdle /\ UpdateIdle /\ DenseIdle

BclNext == SpSolve \/ SolveSteps

SpecBcl == BclInit /\ [][BclNext]_vars

InSolve == sp.pc \notin {"constructed", "returned"}
Returned == sp.pc = "returned"

\* the position of a solve has a step to take: the code is sequential and
\* every position of qp_solve is followed by exactly one of the steps above
CanStep ==
    \/ sp.pc \in {"solve", "solved", "outer", "inner", "step", "post",
                  "unscale", "unscaled"}
    \/ sp.pc = "walk" /\ sp.walk_i <= Len(sp.alphas)

\* an upper bound of the steps of one Newton iteration and of one outer
\* iteration
NewtonCost(s) == s.settings.nb_iterative_refinement + 2 * s.n_in + 5
OuterCost(s) == (s.settings.max_iter_in + 1) * NewtonCost(s) + 3

\* a variant of qp_solve: an upper bound of the steps a solve at position s
\* still takes before it has returned, computed from what is left of the
\* budgets max_iter, max_iter_in, nb_iterative_refinement and of the
\* breakpoints of the walk
StepsLeft(s) ==
    LET refine_left == s.settings.nb_iterative_refinement - s.solve_iter
        outer_left == (s.settings.max_iter - s.iter) * OuterCost(s)
        inner_left == (s.settings.max_iter_in - s.iter_inner) * NewtonCost(s)
    IN CASE s.pc \in {"constructed", "returned"} -> 0
         [] s.pc = "unscaled" -> 1
         [] s.pc = "unscale" -> 2
         [] s.pc = "post" -> outer_left + 4
         [] s.pc = "outer" -> outer_left + OuterCost(s) + 3
         [] s.pc = "solve" /\ s.solve_for = "init" ->
                (s.settings.max_iter + 1) * OuterCost(s) + refine_left + 5
         [] s.pc = "solved" /\ s.solve_for = "init" ->
                (s.settings.max_iter + 1) * OuterCost(s) + 4
         [] s.pc = "inner" -> outer_left + inner_left + NewtonCost(s) + 4
         [] s.pc = "solve" /\ s.solve_for # "init" ->
                outer_left + inner_left + refine_left + 2 * s.n_in + 8
         [] s.pc = "solved" /\ s.solve_for # "init" ->
                outer_left + inner_left + 2 * s.n_in + 7
         [] s.pc = "walk" ->
                outer_left + inner_left + (Len(s.alphas) - s.walk_i) + 6
         [] s.pc = "step" -> outer_left + inner_left + 5

\* C1: qp_solve terminates.  The outer loop runs at most max_iter iterations,
\* each inner loop at most max_iter_in, each refinement at most
\* nb_iterative_refinement passes, the walk of the line search evaluates at
\* most 2 * n_in breakpoints, and every solve that is entered reaches the
\* final unscale and returns: inside a solve there is always a step to take,
\* and every step lowers the natural number StepsLeft, which is 0 only once
\* the solve has returned.
C1_QpSolveTerminates ==
    /\ [](InSolve =>
            /\ sp.iter <= sp.settings.max_iter
            /\ sp.iter_inner <= sp.settings.max_iter_in
            /\ sp.solve_iter <= sp.settings.nb_iterative_refinement
            /\ sp.walk_evals <= 2 * sp.n_in
            /\ CanStep
            /\ StepsLeft(sp) > 0)
    /\ [][InSolve => /\ StepsLeft(sp') < StepsLeft(sp)
                     /\ sp'.pc = "returned" => sp.pc = "unscaled"]_vars
\* a solve has used up max_iter outer iterations, ran the inner solver in
\* each of them, the last refinement used its nb_iterative_refinement
\* passes, and the solve has returned after the final unscale
C1_Witness ==
    /\ Returned
    /\ sp.exit = "max_iter"
    /\ sp.iter = sp.settings.max_iter
    /\ sp.inner_runs = sp.settings.max_iter
    /\ sp.solve_iter = sp.settings.nb_iterative_refinement

\* the tests of the outer loop evaluated on the scaled iterates p
PassesBothTests(p) ==
    LET t == [sp EXCEPT !.x = p[1], !.y = p[2], !.z = p[3]] IN
    /\ is_primal_feasible(t, unscaled_primal_residual(t))
    /\ is_dual_feasible(t, unscaled_dual_residual(t))
UnscaledFrom(p) ==
    /\ sp.x = P_unscale_primal_in_place(sp.P, sp.precond, p[1])
    /\ sp.y = P_unscale_dual_in_place_eq(sp.P, sp.precond, p[2])
    /\ sp.z = P_unscale_dual_in_place_in(sp.P, sp.precond, p[3])

\* C2: when qp_solve leaves the outer loop through a break, the iterates it
\* unscales and returns are the ones on which both tests held: the primal
\* and the dual test hold on them, and nothing is written to x, y, z between
\* the test and the final unscale.
C2_ReturnedIteratesPassedTests ==
    (sp.pc \in {"unscale", "unscaled", "returned"} /\ sp.exit = "converged") =>
        /\ sp.passed # <<>>
        /\ PassesBothTests(sp.passed)
        /\ sp.pc = "unscale" => <<sp.x, sp.y, sp.z>> = sp.passed
        /\ sp.pc # "unscale" => UnscaledFrom(sp.passed)
\* a solve under the Ruiz preconditioner has run the inner solver, passed
\* the tests and returned iterates with y and z that differ
C2_Witness ==
    /\ Returned
    /\ sp.exit = "converged"
    /\ sp.inner_runs > 0
    /\ sp.P = "Ruiz"
    /\ sp.n_eq > 0
    /\ sp.z # ZeroVec(sp.n_in)

\* C5: warm start is a fixed point.  A solve warm-started from the results
\* of a converged solve of the same QP passes the first convergence test
\* without running the inner solver and returns the supplied x, y, z, under
\* either preconditioner.
C5_WarmStartFixedPoint ==
    (Returned /\ sp.warm_fixed) =>
        /\ sp.exit = "converged"
        /\ sp.iter = 0
        /\ sp.inner_runs = 0
        /\ <<sp.x, sp.y, sp.z>> = sp.supplied

(***************************************************************************)
(* The factorization and the active set                                    *)
(***************************************************************************)
\* qp_solve is at a linear solve of a Newton system
AtNewtonSolve == sp.pc = "solve" /\ sp.solve_for = "newton"
\* the slot of inequality i in the KKT matrix
Slot(i) == sp.n + sp.n_eq + i
\* the semi-smooth prediction for inequality i
Predicted(i) ==
    \/ RLe(sp.primal_residual_in_scaled_lo[i], Zero)
    \/ RLe(Zero, sp.primal_residual_in_scaled_up[i])
RowOps(ops) == {k \in 1..Len(ops) : ops[k][1] \in {"add_row", "delete_row"}}
Refactorizations(ops) == {k \in 1..Len(ops) : ops[k][1] = "refactorize"}

\* C11: after an outer iteration changed mu_eq or mu_in, the factorization
\* in use at the first linear solve of the next outer iteration was built
\* with -1/mu_eq on the equality slots and -1/mu_in on the active inequality
\* slots, mu_eq and mu_in being the values the solver now uses.
C11_FactorizationUsesNewMu ==
    (AtNewtonSolve /\ sp.iter > 0 /\ sp.iter_inner = 0) =>
        /\ \A j \in 1..sp.n_eq : sp.ldl.diag[sp.n + j] = RNeg(RInv(sp.mu_eq))
        /\ \A i \in 1..sp.n_in :
              sp.active_constraints[i] => sp.ldl.diag[Slot(i)] = RNeg(RInv(sp.mu_in))

\* C15: at every linear solve inside qp_solve each inequality i is either
\* active, with the full stored count in its KKT column and -1/mu_in in its
\* slot of the factorization, or inactive, with count 0 and +1 in its slot;
\* at the solve of the initial guess every inequality is inactive.
C15_KktSlotInvariant ==
    sp.pc = "solve" =>
        /\ \A i \in 1..sp.n_in :
              IF sp.active_constraints[i]
              THEN /\ sp.kkt_nnz_counts[i] = col_nnz(sp, i)
                   /\ sp.ldl.kkt[i] = col_nnz(sp, i)
                   /\ sp.ldl.diag[Slot(i)] = RNeg(RInv(sp.mu_in))
              ELSE /\ sp.kkt_nnz_counts[i] = 0
                   /\ sp.ldl.kkt[i] = 0
                   /\ sp.ldl.diag[Slot(i)] = One
        /\ sp.solve_for = "init" => \A i \in 1..sp.n_in : ~sp.active_constraints[i]

\* C16: after the sweep at the start of an inner iteration active[i] is the
\* semi-smooth prediction (r_in_lo[i] <= 0 or r_in_up[i] >= 0) for every i,
\* and the right-hand side of the Newton system of that iteration is built
\* from the same prediction: 1/mu_in z - r for a predicted row (r the upper
\* residual if it is >= 0, else the lower one), -z for any other row, whose
\* z_i C_i is added to the first n entries.
C16_ActiveSetSync ==
    AtNewtonSolve =>
        /\ \A i \in 1..sp.n_in : sp.active_constraints[i] = Predicted(i)
        /\ \A i \in 1..sp.n_in :
              sp.rhs[Slot(i)] =
                 IF ~sp.active_constraints[i] THEN RNeg(sp.z[i])
                 ELSE RSub(RMul(RInv(sp.mu_in), sp.z[i]),
                           IF RLe(Zero, sp.primal_residual_in_scaled_up[i])
                           THEN sp.primal_residual_in_scaled_up[i]
                           ELSE sp.primal_residual_in_scaled_lo[i])
        /\ \A j \in 1..sp.n :
              sp.rhs[j] =
                 RSub(VSum([i \in 1..sp.n_in |->
                              IF sp.active_constraints[i] THEN Zero
                              ELSE RMul(sp.z[i], Entry(sp.qp_scaled.CT, j, i))]),
                      sp.dual_residual_scaled[j])
\* the sweep of a later inner iteration has deleted the row of a constraint
\* that left the predicted set while another constraint stays active
C16_Witness ==
    /\ AtNewtonSolve
    /\ sp.iter_inner > 0
    /\ \E k \in RowOps(sp.sweep_ops) : sp.sweep_ops[k][1] = "delete_row"
    /\ \E i \in 1..sp.n_in : sp.active_constraints[i]
    /\ \E i \in 1..sp.n_in : ~sp.active_constraints[i]

\* C17: within one inner iteration the add_row / delete_row calls of the
\* sweep come first; a refactorization follows if and only if at least one
\* row was added or deleted, and it is done before the Newton system is
\* solved: nothing touches the factorization during the solve.
C17_BatchingRule ==
    /\ [](AtNewtonSolve =>
            LET ops == sp.sweep_ops IN
            /\ Refactorizations(ops) =
                  IF RowOps(ops) # {} THEN {Len(ops)} ELSE {}
            /\ RowOps(ops) = 1..Cardinality(RowOps(ops)))
    /\ [][(sp.pc = "solve" /\ sp'.pc \in {"solve", "solved"}) =>
             /\ sp'.sweep_ops = sp.sweep_ops
             /\ sp'.ldl = sp.ldl]_vars
\* a sweep has added a row, refactorized, and the refinement has done a pass
C17_Witness ==
    /\ AtNewtonSolve
    /\ sp.solve_iter > 0
    /\ Len(sp.sweep_ops) = 2
    /\ sp.sweep_ops[1][1] = "add_row"

\* C18: the sweep adds a row only if it is inactive and deletes one only if
\* it is active, so a second sweep with the same predicted set calls no
\* add_row, no delete_row and no refactorize, and leaves active[], the KKT
\* column counts, the total nnz of kkt_active and the factorization as they
\* are.
C18_SweepIdempotent ==
    /\ [](AtNewtonSolve =>
            LET again == active_set_change(sp) IN
            /\ again.sweep_ops = <<>>
            /\ again.active_constraints = sp.active_constraints
            /\ again.kkt_nnz_counts = sp.kkt_nnz_counts
            /\ again.kkt_active_nnz = sp.kkt_active_nnz
            /\ again.ldl = sp.ldl)
    /\ [][(sp.pc = "inner" /\ sp'.pc = "solve") =>
             \A k \in RowOps(sp'.sweep_ops) :
                LET op == sp'.sweep_ops[k] IN
                sp.active_constraints[op[2]] = (op[1] = "delete_row")]_vars
\* a sweep has just changed the active set
C18_Witness ==
    /\ AtNewtonSolve
    /\ sp.solve_iter = 0
    /\ sp.n_in > 0
    /\ RowOps(sp.sweep_ops) # {}
    /\ sp.kkt_active_nnz > Cardinality(DOMAIN sp.qp_scaled.H.e)
                           + Cardinality(DOMAIN sp.qp_scaled.AT.e)

\* C19: the inner solver returns exactly when err_in <= eta_in after a step
\* was applied, when max_iter_in inner iterations were run, or when
\* alpha * ||dw||_inf < 1e-11 in an inner iteration after the first one; on
\* the small-step exit x, y, z and the cached residuals are left as they
\* were before that iteration.
C19_InnerLoopExit ==
    /\ [][sp.pc = "step" =>
            IF step_is_small(sp) /\ sp.iter_inner > 0
            THEN /\ sp'.pc = "post"
                 /\ <<sp'.x, sp'.y, sp'.z>> = <<sp.x, sp.y, sp.z>>
                 /\ sp'.dual_residual_scaled = sp.dual_residual_scaled
                 /\ sp'.primal_residual_eq_scaled = sp.primal_residual_eq_scaled
                 /\ sp'.primal_residual_in_scaled_lo = sp.primal_residual_in_scaled_lo
                 /\ sp'.primal_residual_in_scaled_up = sp.primal_residual_in_scaled_up
            ELSE /\ sp'.x = VAdd(sp.x, VScale(sp.alpha, head(sp.dw, sp.n)))
                 /\ sp'.pc = "post" <=> RLe(err_in(sp'), sp.bcl_eta_in)]_vars
    /\ [][(sp.pc = "inner" /\ sp'.pc = "post") =>
             sp.iter_inner = sp.settings.max_iter_in]_vars


(***************************************************************************)
(* The primal dual line search of one Newton step, with the values of      *)
(* primal_dual_gradient_norm as inputs: grads[i] is the gradient at the    *)
(* i-th breakpoint, grad0 the gradient at 0, and res_a, res_b the          *)
(* coefficients returned at 2 * alpha_last_neg + 1.                        *)
(***************************************************************************)
\* +infinity
PlusInfinity == Inf(1)

LsAlphaVals == {R(1, 2), One, Q(2)}
LsGradVals == {Q(-1), Zero, Q(2)}

RECURSIVE SeqsOver(_, _)
SeqsOver(S, k) ==
    IF k = 0 THEN {<<>>}
    ELSE {Append(q, x) : q \in SeqsOver(S, k - 1), x \in S}

\* T alpha = 1; if (n_in > 0) { the breakpoints; if (alphas_count > 0 &&
\* alphas[0] <= 1) { the walk } }
line_search_entry(ls) ==
    IF ls.n_in > 0 /\ Len(ls.alphas) > 0 /\ RLe(ls.alphas[1], One)
    THEN [ls EXCEPT !.pc = "ls_walk", !.alpha = One, !.walk_i = 0,
                    !.last_neg_grad = Zero, !.alpha_last_neg = Zero,
                    !.first_pos_grad = Zero, !.alpha_first_pos = PlusInfinity]
    ELSE [ls EXCEPT !.pc = "ls_done", !.alpha = One]

\* one pass of the loop over the breakpoints
line_search_eval(ls) ==
    LET alpha_cur == ls.alphas[ls.walk_i + 1]
        gr == ls.grads[ls.walk_i + 1]
    IN IF RLt(gr, Zero)
       THEN [ls EXCEPT !.alpha_last_neg = alpha_cur, !.last_neg_grad = gr,
                       !.walk_i = @ + 1,
                       !.pc = IF ls.walk_i + 1 < Len(ls.alphas)
                              THEN "ls_walk" ELSE "ls_select"]
       ELSE [ls EXCEPT !.first_pos_grad = gr, !.alpha_first_pos = alpha_cur,
                       !.pc = "ls_select"]

\* if (alpha_last_neg == 0 && alpha_first_pos < 1)
takes_first_breakpoint(alpha_last_neg, alpha_first_pos) ==
    alpha_last_neg = Zero /\ RLt(alpha_first_pos, One)

\* after the loop: the choice of alpha
line_search_select(ls) ==
    LET last_neg_grad == IF ls.alpha_last_neg = Zero THEN ls.grad0
                         ELSE ls.last_neg_grad
        interpolated ==
            RSub(ls.alpha_last_neg,
                     RDiv(RMul(last_neg_grad,
                                   RSub(ls.alpha_first_pos, ls.alpha_last_neg)),
                              RSub(ls.first_pos_grad, last_neg_grad)))
    IN [ls EXCEPT !.pc = "ls_done", !.last_neg_grad = last_neg_grad,
                  !.alpha =
                     IF ls.alpha_first_pos = PlusInfinity
                     THEN RDiv(RNeg(ls.res_b), ls.res_a)
                     ELSE IF takes_first_breakpoint(ls.alpha_last_neg,
                                                    ls.alpha_first_pos)
                     THEN ls.alpha_first_pos
                     ELSE interpolated]

LineSearchInit ==
    /\ sp \in { [pc |-> "ls_entry", n_in |-> n_in, alphas |-> SortedSeq(S),
                 grads |-> grads, grad0 |-> grad0, res_a |-> res_a, res_b |-> res_b,
                 walk_i |-> 0, last_neg_grad |-> Zero, alpha_last_neg |-> Zero,
                 first_pos_grad |-> Zero, alpha_first_pos |-> PlusInfinity,
                 alpha |-> One]
                : n_in \in {2}, S \in SUBSET LsAlphaVals,
                  grads \in SeqsOver(LsGradVals, 3), grad0 \in {Q(-1), Q(2)},
                  res_a \in {One, Q(2)}, res_b \in {Q(-1), Q(-3)} }
       \cup
             { [pc |-> "ls_entry", n_in |-> 0, alphas |-> <<>>,
                 grads |-> <<>>, grad0 |-> Q(-1), res_a |-> One, res_b |-> Q(-1),
                 walk_i |-> 0, last_neg_grad |-> Zero, alpha_last_neg |-> Zero,
                 first_pos_grad |-> Zero, alpha_first_pos |-> PlusInfinity,
                 alpha |-> One] }
    /\ Len(sp.grads) >= Len(sp.alphas)
    /\ ResultsIdle /\ ScaleIdle /\ UpdateIdle /\ DenseIdle

LsEntry ==
    /\ sp.pc = "ls_entry"
    /\ sp' = line_search_entry(sp)
    /\ SparseFrame

LsEval ==
    /\ sp.pc = "ls_walk"
    /\ sp' = line_search_eval(sp)
    /\ SparseFrame

LsSelect ==
    /\ sp.pc = "ls_select"
    /\ sp' = line_search_select(sp)
    /\ SparseFrame

LineSearchNext == LsEntry \/ LsEval \/ LsSelect

SpecLineSearch == LineSearchInit /\ [][LineSearchNext]_vars

(***************************************************************************)
(* The end of an outer iteration: bcl_update, cold reset, mu_update        *)
(***************************************************************************)
\* an outer iteration that did not pass the second convergence test ends
EndOfOuterIteration == sp.pc = "post" /\ sp'.pc = "outer"
PrimalNew == unscaled_primal_residual(sp).lhs
Accepted == RLe(PrimalNew, sp.bcl_eta_ext)
BclMuIn == RMin(RMul(sp.mu_in, sp.settings.mu_update_factor), sp.settings.mu_max_in)
BclMuEq == RMin(RMul(sp.mu_eq, sp.settings.mu_update_factor), sp.settings.mu_max_eq)
MuKept == sp'.mu_in = sp.mu_in /\ sp'.mu_eq = sp.mu_eq
MuRaised == sp'.mu_in = BclMuIn /\ sp'.mu_eq = BclMuEq
MuReset ==
    /\ sp'.mu_in = sp.settings.cold_reset_mu_in
    /\ sp'.mu_eq = sp.settings.cold_reset_mu_eq
\* what the code and the specification agree a cold reset needs
ResetPossible ==
    /\ RLe(Q(100000), sp.mu_in)
    /\ RLe(sp.primal_feasibility_lhs, PrimalNew)
\* v = max(bcl_eta_in / mu_in, eps_in_min)
IsEtaInAccepted(v) == v = RMax(RDiv(sp.bcl_eta_in, sp.mu_in), sp.eps_in_min)
\* eta_ext multiplied by mu_in^(-beta_bcl)
EtaExtAccepted == RMul(sp.bcl_eta_ext, RInv(RPow(sp.mu_in, sp.settings.beta_bcl)))

\* C12: BCL rejection.  When the primal feasibility after the inner solver
\* exceeds eta_ext, y and z go back to the snapshots y_prev, z_prev and x
\* keeps its value, the penalties become min(mu * mu_update_factor, mu_max)
\* unless the cold reset fires, and eta_ext becomes
\* 0.1^alpha_bcl / new_mu_in^alpha_bcl.
C12_BclRejection ==
    [][(EndOfOuterIteration /\ ~Accepted) =>
         /\ sp'.y = sp.y_prev /\ sp'.z = sp.z_prev /\ sp'.x = sp.x
         /\ sp'.bcl_eta_ext = RDiv(RPow(R(1, 10), sp.settings.alpha_bcl),
                                   RPow(BclMuIn, sp.settings.alpha_bcl))
         /\ MuRaised \/ (ResetPossible /\ MuReset)]_vars
\* a rejected first iteration of a QP with an equality: the multipliers are
\* the snapshot, x has moved, mu_in went from 10 to 100 and eta_ext to
\* 0.1 / 100
C12_Witness ==
    /\ sp.pc = "outer" /\ sp.iter = 1 /\ sp.n_eq > 0
    /\ sp.settings.alpha_bcl = 1
    /\ sp.mu_in = Q(100) /\ sp.mu_eq = Q(10000)
    /\ sp.bcl_eta_ext = R(1, 1000)
    /\ sp.y = sp.y_prev /\ sp.z = sp.z_prev /\ sp.x # sp.x_prev

\* C13 as stated: an accepted iteration keeps mu_eq and mu_in, keeps y and
\* z, multiplies eta_ext by mu_in^(-beta_bcl) and sets eta_in to
\* max(eta_in / mu_in, eta_in_min).
C13_AcceptanceKeepsPenalties ==
    [][(EndOfOuterIteration /\ Accepted) =>
         /\ MuKept
         /\ sp'.y = sp.y /\ sp'.z = sp.z
         /\ sp'.bcl_eta_ext = EtaExtAccepted
         /\ IsEtaInAccepted(sp'.bcl_eta_in)]_vars
\* C13: an accepted iteration keeps y and z, multiplies eta_ext by
\* mu_in^(-beta_bcl), sets eta_in to max(eta_in / mu_in, eta_in_min) and
\* keeps mu_eq and mu_in unless the cold reset of that iteration fires, in
\* which case they become cold_reset_mu_eq and cold_reset_mu_in.
C13_AcceptanceKeepsPenaltiesUnlessReset ==
    [][(EndOfOuterIteration /\ Accepted) =>
         /\ MuKept \/ (ResetPossible /\ MuReset)
         /\ sp'.y = sp.y /\ sp'.z = sp.z
         /\ sp'.bcl_eta_ext = EtaExtAccepted
         /\ IsEtaInAccepted(sp'.bcl_eta_in)]_vars
\* an iteration accepted at mu_in = 1e5 (the second acceptance after a
\* rejection: eta_ext is 0.1 / 1e5 multiplied twice by 1 / 1e5, z is not the
\* snapshot) whose cold reset fired
C13_Witness ==
    /\ sp.pc = "outer" /\ sp.iter > 0
    /\ sp.bcl_eta_ext = RMul(RMul(RDiv(R(1, 10), Q(100000)), RInv(Q(100000))),
                             RInv(Q(100000)))
    /\ sp.z # sp.z_prev
    /\ sp.mu_in = sp.settings.cold_reset_mu_in
    /\ sp.mu_eq = sp.settings.cold_reset_mu_eq

\* C14: the cold reset fires exactly when the primal feasibility after the
\* inner solver is >= the one before it, the dual feasibility after it is
\* >= the dual feasibility before it, and mu_in >= 1e5; then the next
\* penalties are the cold-reset values whatever bcl_update computed, and
\* otherwise they are what bcl_update left.
C14_ColdResetCondition ==
    [][EndOfOuterIteration =>
         LET dual_feasibility_lhs_new ==
                 unscaled_dual_residual([sp EXCEPT !.y = sp'.y, !.z = sp'.z]).lhs
             fires == /\ RLe(sp.primal_feasibility_lhs, PrimalNew)
                      /\ RLe(sp.dual_feasibility_lhs, dual_feasibility_lhs_new)
                      /\ RLe(Q(100000), sp.mu_in)
         IN IF fires THEN MuReset
            ELSE IF Accepted THEN MuKept ELSE MuRaised]_vars

\* the first breakpoint whose gradient is not negative, 0 if there is none
FirstNonNegative(ls) ==
    LET K == {k \in 1..Len(ls.alphas) : ~RLt(ls.grads[k], Zero)}
    IN IF K = {} THEN 0 ELSE CHOOSE k \in K : \A j \in K : k <= j
LineSearchDone == sp.pc = "ls_done"
Walked == sp.n_in > 0 /\ Len(sp.alphas) > 0 /\ RLe(sp.alphas[1], One)

\* C20: the line search walks the sorted positive breakpoints up to the
\* first one with a non-negative gradient.  Between a breakpoint with a
\* negative gradient and the next one alpha is the root of the linear
\* interpolation; if every gradient is negative alpha = -b / a; if the
\* first breakpoint already has a non-negative gradient and is <= 1, alpha
\* is that breakpoint; with no positive breakpoint or n_in = 0, alpha = 1.
C20_LineSearchSelection ==
    LineSearchDone =>
      /\ (sp.n_in = 0 \/ Len(sp.alphas) = 0) => sp.alpha = One
      /\ Walked =>
           LET k == FirstNonNegative(sp) IN
           IF k = 0 THEN RMul(sp.alpha, sp.res_a) = RNeg(sp.res_b)
           ELSE IF k = 1 THEN sp.alpha = sp.alphas[1]
           ELSE sp.alpha =
                  RSub(sp.alphas[k - 1],
                       RDiv(RMul(sp.grads[k - 1],
                                 RSub(sp.alphas[k], sp.alphas[k - 1])),
                            RSub(sp.grads[k], sp.grads[k - 1])))


(***************************************************************************)
(* Iterative refinement                                                    *)
(***************************************************************************)
RefinementPass == sp.pc = "solve" /\ refinement_continues(sp)
\* the infinity norm of all n + n_eq + n_in rows of K * sol - rhs
FullErrNorm(s) == infty_norm((err_x(s) \o err_y(s)) \o err_z(s))
\* the same norm at the pass before: sol was zero before the first solve
\* and is the same vector from then on
FullErrNormBefore(s) ==
    IF s.solve_iter = 1 THEN infty_norm(s.rhs) ELSE FullErrNorm(s)

\* C21: iterative refinement runs at most nb_iterative_refinement passes
\* for one right-hand side, stops as soon as the infinity norm of the full
\* residual K * sol - rhs is larger than at the previous pass, and its
\* first pass yields the plain solve of rhs.
C21_RefinementStopsOnFullResidual ==
    /\ [](sp.pc \in {"solve", "solved"} =>
             sp.solve_iter <= sp.settings.nb_iterative_refinement)
    /\ [][RefinementPass =>
            /\ (sp'.pc = "solved") <=>
                  (sp.solve_iter > 0 /\ RLt(FullErrNormBefore(sp), FullErrNorm(sp)))
            /\ sp.solve_iter = 0 => sp'.sol = ldl_solve(sp, sp.rhs) /\ sp'.solve_iter = 1]_vars


(***************************************************************************)
(* RuizEquilibration::scale_qp_in_place, one round of the loop per step.   *)
(* sp is [pc, ruiz, qp, S, c, delta, iter, epsilon, max_iter] with the     *)
(* history of the call: rounds, deltas, gammas.                            *)
(***************************************************************************)
MaxIterRuiz == 4
\* <<H, A, C>> of a qp with n = n_eq = n_in = 1
RuizEntries ==
    { <<One, R(1, 65536), One>>, <<Q(4), Q(4), Q(4)>>, <<One, One, One>>,
      <<One, R(1, 65536), R(1, 65536)>> }
RuizQps ==
    { [H |-> Mat(1, 1, <<1, 1>> :> e[1]), g |-> <<Q(-8)>>,
       AT |-> Mat(1, 1, <<1, 1>> :> e[2]), b |-> <<One>>,
       CT |-> Mat(1, 1, <<1, 1>> :> e[3]), l |-> <<Q(-1)>>, u |-> <<One>>]
      : e \in RuizEntries }
    \cup
    \* n = 2 with an entry of H stored below the diagonal, and an inequality
    \* row without entries
    { [H |-> Mat(2, 2, (<<1, 1>> :> Q(4)) @@ (<<2, 1>> :> One) @@ (<<2, 2>> :> Q(4))),
       g |-> <<Q(-8), Q(3)>>,
       AT |-> Mat(2, 1, <<1, 1>> :> Q(4)), b |-> <<One>>,
       CT |-> Mat(2, 1, <<>>), l |-> <<Q(-1)>>, u |-> <<One>>] }
\* the qps a preconditioner built for n variables and n_eq + n_in rows scales
RuizQpsOfSize(rz) ==
    { qp \in RuizQps : /\ qp.H.nrows + qp.AT.ncols + qp.CT.ncols = Len(rz.delta)
                       /\ qp.AT.ncols + qp.CT.ncols = 2 }

\* scale_qp_in_place up to the head of the loop: delta.setOnes(), and in
\* ruiz_scale_qp_in_place c = 1, gamma = 1, iter = 1, the temporary delta = 0
ruiz_enter(s, qp) ==
    [s EXCEPT !.pc = "loop", !.qp = qp,
              !.ruiz.delta = [j \in 1..Len(s.ruiz.delta) |-> One],
              !.S = [j \in 1..Len(s.ruiz.delta) |-> One],
              !.c = One, !.iter = 1,
              !.delta = ZeroVec(Len(s.ruiz.delta)),
              !.rounds = 0, !.deltas = <<>>, !.gammas = <<>>]
\* while (infty_norm(1 - delta) > epsilon)
ruiz_converged(s) ==
    RLe(infty_norm([j \in 1..Len(s.delta) |-> RSub(One, s.delta[j])]), s.epsilon)
\* if (iter == max_iter) break; else ++iter; and the body of the loop
ruiz_step(s) ==
    LET r == ruiz_round([qp |-> s.qp, S |-> s.S, c |-> s.c]) IN
    [s EXCEPT !.qp = r.qp, !.S = r.S, !.c = r.c, !.delta = r.delta,
              !.iter = s.iter + 1, !.rounds = s.rounds + 1,
              !.deltas = Append(s.deltas, r.delta),
              !.gammas = Append(s.gammas, r.gamma)]
\* return c; with S written through delta_ to RuizEquilibration::delta
ruiz_return(s) ==
    [s EXCEPT !.pc = "idle", !.ruiz.delta = s.S, !.ruiz.c = s.c,
              !.early = ruiz_converged(s), !.calls = s.calls + 1]

RuizInit ==
    /\ sp \in { [pc |-> "idle",
                 ruiz |-> RuizCtor(qp.H.nrows, qp.AT.ncols + qp.CT.ncols), qp |-> qp,
                 S |-> <<>>, c |-> One, delta |-> <<>>, iter |-> 0,
                 epsilon |-> epsilon, max_iter |-> max_iter,
                 rounds |-> 0, deltas |-> <<>>, gammas |-> <<>>,
                 early |-> FALSE, calls |-> 0]
                : qp \in RuizQps, epsilon \in {R(1, 1000), R(1, 2)},
                  max_iter \in 1..MaxIterRuiz }
    /\ ResultsIdle /\ ScaleIdle /\ UpdateIdle /\ DenseIdle

RuizCall ==
    /\ sp.pc = "idle" /\ sp.calls < 2
    /\ \E qp \in IF sp.calls = 0 THEN {sp.qp} ELSE RuizQpsOfSize(sp.ruiz) :
          sp' = ruiz_enter(sp, qp)
    /\ SparseFrame

RuizRound ==
    /\ sp.pc = "loop"
    /\ ~ruiz_converged(sp) /\ sp.iter # sp.max_iter
    /\ sp' = ruiz_step(sp)
    /\ SparseFrame

RuizReturn ==
    /\ sp.pc = "loop"
    /\ ruiz_converged(sp) \/ sp.iter = sp.max_iter
    /\ sp' = ruiz_return(sp)
    /\ SparseFrame

RuizNext == RuizCall \/ RuizRound \/ RuizReturn

SpecRuiz == RuizInit /\ [][RuizNext]_vars

RuizReturned == sp.pc = "idle" /\ sp.calls > 0
RECURSIVE ProductCw(_, _)
ProductCw(vs, k) ==
    IF vs = <<>> THEN [j \in 1..k |-> One] \o <<>>
    ELSE VMulCw(vs[1], ProductCw(Tail(vs), k))
RECURSIVE Product(_)
Product(gs) == IF gs = <<>> THEN One ELSE RMul(gs[1], Product(Tail(gs)))

\* C22: a call of scale_qp_in_place executes at most N = max_iter rounds,
\* exactly N when it did not stop on |1 - delta| <= epsilon, at least one
\* for N >= 1; the stored delta is the product of the deltas of the rounds
\* of this call and c the product of their gammas, starting from ones
C22_RuizRounds ==
    RuizReturned =>
        /\ sp.rounds <= sp.max_iter
        /\ ~sp.early => sp.rounds = sp.max_iter
        /\ sp.max_iter >= 1 => sp.rounds >= 1
        /\ Len(sp.deltas) = sp.rounds /\ Len(sp.gammas) = sp.rounds
        /\ sp.ruiz.delta = ProductCw(sp.deltas, Len(sp.ruiz.delta))
        /\ sp.ruiz.c = Product(sp.gammas)
\* what the loop does: max_iter - 1 rounds when the test never succeeds
C22_RuizRoundsOneLess ==
    RuizReturned =>
        /\ sp.rounds <= sp.max_iter - 1
        /\ ~sp.early => sp.rounds = sp.max_iter - 1
        /\ Len(sp.deltas) = sp.rounds /\ Len(sp.gammas) = sp.rounds
        /\ sp.ruiz.delta = ProductCw(sp.deltas, Len(sp.ruiz.delta))
        /\ sp.ruiz.c = Product(sp.gammas)


(***************************************************************************)
(* colwise_infty_norm_symhi and colwise_infty_norm_symlo on matrices that  *)
(* store entries anywhere: sp is [pc, h, col_norm].                        *)
(***************************************************************************)
MaxNnzNorm == 5
NormDims == {2, 3}
NormVals == <<Q(-3), One, Q(2)>>
\* the matrices of dimension n with at most MaxNnzNorm stored entries
NormMats ==
    { Mat(n, n, [q \in dom |-> NormVals[((2 * q[1] + q[2] + k) % 3) + 1]])
      : <<n, dom, k>> \in
          UNION { {<<n, dom, k>> : dom \in {d \in SUBSET ((1..n) \X (1..n)) :
                                             Cardinality(d) <= MaxNnzNorm},
                                   k \in 0..2}
                  : n \in NormDims } }

NormsInit ==
    /\ sp \in { [pc |-> "input", h |-> h, col_norm |-> ZeroVec(h.ncols) \o <<>>]
                : h \in NormMats }
    /\ ResultsIdle /\ ScaleIdle /\ UpdateIdle /\ DenseIdle

NormSymhi ==
    /\ sp.pc = "input"
    /\ sp' = [sp EXCEPT !.pc = "symhi",
                        !.col_norm = colwise_infty_norm_symhi(sp.col_norm, sp.h) \o <<>>]
    /\ SparseFrame

NormSymlo ==
    /\ sp.pc = "input"
    /\ sp' = [sp EXCEPT !.pc = "symlo",
                        !.col_norm = colwise_infty_norm_symlo(sp.col_norm, sp.h) \o <<>>]
    /\ SparseFrame

NormsNext == NormSymhi \/ NormSymlo

SpecNorms == NormsInit /\ [][NormsNext]_vars

\* the entry (i, j) of the symmetric matrix whose lower triangle is m
SymLoEntry(m, i, j) == IF i >= j THEN Entry(m, i, j) ELSE Entry(m, j, i)
\* the infinity norms of the rows of the symmetric matrix given by the
\* upper triangle of m, and of the one given by its lower triangle
RowNormsUpper(m) ==
    [i \in 1..m.nrows |-> VMaxAbs([j \in 1..m.ncols |-> SymEntry(m, i, j)])] \o <<>>
RowNormsLower(m) ==
    [i \in 1..m.nrows |-> VMaxAbs([j \in 1..m.ncols |-> SymLoEntry(m, i, j)])] \o <<>>

\* C23: on a zeroed output colwise_infty_norm_symhi gives the infinity norms
\* of the rows of the full symmetric matrix from the entries with i <= j
\* alone, and colwise_infty_norm_symlo the same from the entries with i >= j
C23_SymmetricNorms ==
    /\ sp.pc = "symhi" => sp.col_norm = RowNormsUpper(sp.h)
    /\ sp.pc = "symlo" => sp.col_norm = RowNormsLower(sp.h)
\* an entry strictly above the diagonal decides the norm of a later row,
\* with entries stored below the diagonal that the walk skips
C23_Witness ==
    /\ sp.pc = "symhi" /\ sp.h.nrows = 3
    /\ sp.col_norm = RowNormsUpper(sp.h)
    /\ \E i \in 1..3, j \in 1..3 :
          /\ i < j /\ <<i, j>> \in DOMAIN sp.h.e
          /\ sp.col_norm[i] = RAbs(sp.h.e[<<i, j>>])
          /\ RLt(VMaxAbs([k \in 1..i |-> Entry(sp.h, k, i)]), sp.col_norm[i])
    /\ \E q \in DOMAIN sp.h.e : q[1] > q[2] /\ RLt(sp.col_norm[q[1]], RAbs(sp.h.e[q]))


(***************************************************************************)
(* The residuals carried through the inner loop.                           *)
(***************************************************************************)
InInnerLoop ==
    \/ sp.pc \in {"inner", "walk", "step"}
    \/ sp.pc \in {"solve", "solved"} /\ sp.solve_for = "newton"
\* the residuals of the proximal subproblem at x, y, z, from scratch
DualResidual(s) ==
    VAdd(VAdd(VAdd(VAdd(SymHiVec(s.qp_scaled.H, s.x), s.qp_scaled.g),
                   MatVec(s.qp_scaled.AT, s.y)),
              MatVec(s.qp_scaled.CT, s.z)),
         VScale(s.rho, VSub(s.x, s.x_prev)))
EqResidual(s) ==
    VSub(VSub(MatTVec(s.qp_scaled.AT, s.x), s.qp_scaled.b),
         VScale(RInv(s.mu_eq), VSub(s.y, s.y_prev)))
InResidual(s, bound) ==
    VAdd(VSub(MatTVec(s.qp_scaled.CT, s.x), bound), VScale(RInv(s.mu_in), s.z_prev))

\* C24: all through the inner loop the four cached residual vectors agree
\* with the residuals computed from scratch at the current x, y, z:
\* H x + g + A^T y + C^T z + rho (x - x_prev), A x - b - (y - y_prev) / mu_eq,
\* C x - l + z_prev / mu_in and C x - u + z_prev / mu_in; the equality of
\* exact arithmetic is, on doubles, agreement up to the rounding errors of
\* the two evaluations
C24_CachedResiduals ==
    InInnerLoop =>
        /\ AgreeUpToRounding(sp.dual_residual_scaled, DualResidual(sp))
        /\ AgreeUpToRounding(sp.primal_residual_eq_scaled, EqResidual(sp))
        /\ AgreeUpToRounding(sp.primal_residual_in_scaled_lo,
                             InResidual(sp, sp.qp_scaled.l))
        /\ AgreeUpToRounding(sp.primal_residual_in_scaled_up,
                             InResidual(sp, sp.qp_scaled.u))
\* after an applied step that moved x, y and z, under the Ruiz scaling
C24_Witness ==
    /\ InInnerLoop /\ sp.iter_inner > 0 /\ sp.P = "Ruiz"
    /\ sp.n_eq > 0 /\ sp.x # sp.x_prev /\ sp.y # sp.y_prev /\ sp.z # sp.z_prev
    /\ AgreeUpToRounding(sp.dual_residual_scaled, DualResidual(sp))
    /\ AgreeUpToRounding(sp.primal_residual_eq_scaled, EqResidual(sp))


(***************************************************************************)
(* The outer loop of SpecBcl under other penalty settings: an update       *)
(* factor below one with caps below the initial penalties, reset values    *)
(* above the caps, and a cap of the order of 1 / eps_in_min.               *)
(***************************************************************************)
PenaltySettings ==
    { [max_iter |-> f[1], max_iter_in |-> f[8],
       nb_iterative_refinement |-> NbRefinement,
       eps_abs |-> R(1, 1000), eps_rel |-> Zero,
       warm_start |-> TRUE,
       alpha_bcl |-> f[2], beta_bcl |-> 1,
       mu_update_factor |-> f[3], mu_max_eq |-> f[4], mu_max_in |-> f[5],
       cold_reset_mu_eq |-> f[6], cold_reset_mu_in |-> f[7]]
      : f \in { <<3, 1, R(1, 2), Q(500), Q(5), R(11, 10), R(11, 10), MaxIterIn>>,
                <<MaxIterBcl, 1, Q(10), Q(10000000), Q(100000),
                  Q(100000000), Q(1000000), MaxIterIn>>,
                <<1, 1, Q(200000000), Q(10000000), Q(2000000000),
                  R(11, 10), R(11, 10), 1>> } }

PenaltyInit ==
    /\ sp \in { [pc |-> "constructed", inst |-> inst, P |-> P, settings |-> settings,
                 solves |-> 0,
                 supplied |-> <<>>, warm_fixed |-> FALSE,
                 kkt |-> setup_impl(inst.qp)]
                : inst \in {QA, QB}, P \in Preconditioners,
                  settings \in PenaltySettings }
    /\ ResultsIdle /\ ScaleIdle /\ UpdateIdle /\ DenseIdle

SpecPenalty == PenaltyInit /\ [][BclNext]_vars

PenaltiesChange == sp'.mu_in # sp.mu_in \/ sp'.mu_eq # sp.mu_eq
\* C25: all through qp_solve mu_eq > 0, mu_in > 0,
\* mu_in <= max(1e1, mu_max_in, cold_reset_mu_in) and
\* mu_eq <= max(1e3, mu_max_eq, cold_reset_mu_eq), and the penalties change
\* at the end of an outer iteration only
C25_PenaltyBounds ==
    /\ [](InSolve =>
            /\ RLt(Zero, sp.mu_eq) /\ RLt(Zero, sp.mu_in)
            /\ RLe(sp.mu_in, RMax(Q(10), RMax(sp.settings.mu_max_in,
                                               sp.settings.cold_reset_mu_in)))
            /\ RLe(sp.mu_eq, RMax(Q(1000), RMax(sp.settings.mu_max_eq,
                                                 sp.settings.cold_reset_mu_eq))))
    /\ [][(InSolve /\ sp'.pc # "returned" /\ PenaltiesChange)
             => EndOfOuterIteration]_vars
\* a penalty at a reset value above its cap, and one lowered by the factor
C25_Witness ==
    /\ InSolve
    /\ \/ sp.mu_in = Q(1000000) /\ sp.mu_eq = Q(100000000)
       \/ sp.mu_in = R(5, 4) /\ sp.mu_eq = Q(125) /\ sp.P = "Ruiz"

\* C26: all through qp_solve eta_in >= eta_in_min = min(eps_abs, 1e-9)
C26_EtaInFloor == InSolve => RLe(sp.eps_in_min, sp.bcl_eta_in)


(***************************************************************************)
(* sparse::delete_row and sparse::add_row on the factor L of L D L^T.      *)
(* A factorization f is [ld, etree, failed]: ld is the matrix view         *)
(* [cap, nnz_per_col, col, nnz] with cap[j] = col_ptrs[j + 1] - col_ptrs[j]*)
(* and col[j] the nnz_per_col[j] stored entries <<row, value>> of column   *)
(* j, the diagonal first and the rows ascending; failed holds the          *)
(* assertions that did not hold.  Columns are numbered from 1, the absent  *)
(* parent is -1, the permutation is the identity (perm_inv empty).  A      *)
(* value is the name of the quantity stored: <<kind, row, column>>.        *)
(***************************************************************************)
RowSet(c) == {c[k][1] : k \in 1..Len(c)}
RemoveAt(c, k) == SubSeq(c, 1, k - 1) \o SubSeq(c, k + 1, Len(c))
InsertAt(c, k, e) == (SubSeq(c, 1, k - 1) \o <<e>>) \o SubSeq(c, k, Len(c))
\* std::lower_bound(c + first, c + end, v) on the row indices of a column:
\* the first position from first on whose row is >= v, or one past the end
lower_bound(c, first, v) ==
    CHOOSE k \in first..(Len(c) + 1) :
        /\ \A q \in first..(k - 1) : c[q][1] < v
        /\ k = Len(c) + 1 \/ c[k][1] >= v

\* sparse::merge_second_col_into_first(difference, first_values, first_ptr,
\* full_len, initial_len, second, ignore_threshold_inclusive, move_values):
\* the rows of second above the threshold are merged into the first column
\* (the off-diagonal entries c of column j); [col, difference, fits]
merge_second_col_into_first(c, full_len, second, ignore_threshold_inclusive, j) ==
    LET difference == {i \in second : i > ignore_threshold_inclusive} \ RowSet(c)
        rows == Ascending(RowSet(c) \cup difference)
    IN [col |-> [k \in 1..Len(rows) |->
                    IF rows[k] \in difference
                    THEN <<rows[k], <<"fill", rows[k], j>>>>
                    ELSE c[CHOOSE q \in 1..Len(c) : c[q][1] = rows[k]]] \o <<>>,
        difference |-> difference,
        fits |-> Len(rows) <= full_len]

\* the numerical part of rank1_update on a column it walks through
updated_values(c, j) ==
    [k \in 1..Len(c) |-> <<c[k][1], <<"updated", c[k][1], j>>>>] \o <<>>

\* sparse::rank1_update(ld, etree, perm_inv, w, alpha), from current_col on:
\* the pattern merge_col is merged into the column, the count of the column
\* and of the matrix grow by the difference, the parent becomes the first
\* off-diagonal row, and the walk goes on at the parent with the difference
\* when the parent is the old one, with the whole column otherwise
RECURSIVE rank1_walk(_, _, _)
rank1_walk(f, current_col, merge_col) ==
    LET old_parent == f.etree[current_col]
        c == f.ld.col[current_col]
        mg == merge_second_col_into_first(Tail(c), f.ld.cap[current_col] - 1,
                                          merge_col, current_col, current_col)
        new_col == updated_values(<<c[1]>> \o mg.col, current_col)
        new_parent == IF mg.col = <<>> THEN -1 ELSE mg.col[1][1]
        f1 == [f EXCEPT !.ld.col[current_col] = new_col,
                        !.ld.nnz_per_col[current_col] = Len(new_col),
                        !.ld.nnz = @ + Cardinality(mg.difference),
                        !.etree[current_col] = new_parent,
                        !.failed = IF mg.fits THEN @
                                   ELSE @ \cup {"rank1_update: capacity"}]
    IN IF new_parent = -1
       THEN f1
       ELSE CHOOSE r \in { rank1_walk(g, new_parent,
                                      IF new_parent = old_parent
                                      THEN mg.difference ELSE RowSet(mg.col))
                           : g \in {f1} } : TRUE
\* w is given by its rows; an empty w changes nothing
rank1_update(f, w) ==
    IF w = {} THEN f
    ELSE rank1_walk(f, CHOOSE i \in w : \A k \in w : i <= k, w)

\* delete_row that leaves the elimination tree of the earlier columns alone
delete_row_in_column_keeps_parent(f, j, pos) ==
    LET c == f.ld.col[j]
        it == lower_bound(c, 2, pos)
    IN IF it <= Len(c) /\ c[it][1] = pos
       THEN [f EXCEPT !.ld.col[j] = RemoveAt(c, it),
                      !.ld.nnz_per_col[j] = @ - 1,
                      !.ld.nnz = @ - 1]
       ELSE f
\* delete_row, step 1 on column j < pos: row pos is searched among the
\* off-diagonal rows; when found the later entries move back by one, the
\* counts go down by one, and a parent that was pos becomes the next row
delete_row_in_column(f, j, pos) ==
    LET c == f.ld.col[j]
        it == lower_bound(c, 2, pos)
        c1 == RemoveAt(c, it)
        nz == f.ld.nnz_per_col[j] - 1
    IN IF it <= Len(c) /\ c[it][1] = pos
       THEN [f EXCEPT !.ld.col[j] = c1,
                      !.ld.nnz_per_col[j] = nz,
                      !.ld.nnz = @ - 1,
                      !.etree[j] = IF @ # pos THEN @
                                   ELSE IF nz > 1 /\ it <= Len(c1) THEN c1[it][1]
                                   ELSE -1,
                      !.failed = IF f.etree[j] = pos /\ it # 2
                                 THEN @ \cup {"delete_row: it_pos == 0"} ELSE @]
       ELSE f
RECURSIVE delete_row_columns(_, _, _)
delete_row_columns(f, j, pos) ==
    IF j >= pos THEN f
    ELSE CHOOSE r \in { delete_row_columns(g, j + 1, pos)
                        : g \in {delete_row_in_column(f, j, pos)} } : TRUE

\* delete_row without its step 4: column pos keeps its entries
rowmod_delete_row_keeps_column(f, pos) ==
    CHOOSE r \in
      { rank1_update(f2, RowSet(Tail(f2.ld.col[pos])))
        : f2 \in { [f1 EXCEPT !.ld.col[pos][1] = <<pos, <<"one", pos, pos>>>>]
                   : f1 \in {delete_row_columns(f, 1, pos)} } } : TRUE
\* sparse::delete_row(ld, etree, perm_inv, pos): step 1 on the columns
\* before pos, step 2 d_kk = 1, step 3 the rank update with the rest of
\* column pos, step 4 nnz_per_col[pos] = 1 and etree[pos] = -1
rowmod_delete_row(f, pos) ==
    CHOOSE r \in
      { [f3 EXCEPT !.ld.nnz_per_col[pos] = 1,
                   !.ld.col[pos] = SubSeq(@, 1, 1),
                   !.etree[pos] = -1]
        : f3 \in { rank1_update(f2, RowSet(Tail(f2.ld.col[pos])))
                   : f2 \in { [f1 EXCEPT !.ld.col[pos][1] = <<pos, <<"one", pos, pos>>>>]
                              : f1 \in {delete_row_columns(f, 1, pos)} } } } : TRUE

\* add_row: the columns before pos reached from column j through the
\* elimination tree, added to the visited ones
RECURSIVE etree_walk(_, _, _, _)
etree_walk(etree, visited, j, pos) ==
    IF j \in visited THEN visited
    ELSE IF etree[j] < 1 \/ etree[j] >= pos \/ etree[j] \in visited
    THEN visited \cup {j}
    ELSE etree_walk(etree, visited \cup {j}, etree[j], pos)
\* add_row: the non-zero pattern of row pos of L, from the rows of the new
\* column that are before pos (the loop breaks at the first row >= pos)
RECURSIVE l12_nnz_pattern(_, _, _, _)
l12_nnz_pattern(etree, visited, rows, pos) ==
    IF rows = <<>> \/ rows[1] >= pos THEN visited
    ELSE CHOOSE r \in { l12_nnz_pattern(etree, v, Tail(rows), pos)
                        : v \in {etree_walk(etree, visited, rows[1], pos)} } : TRUE

\* add_row: the rows of new_col after pos are appended to column pos, each
\* under VEG_ASSERT(nz < capacity of the column), and sorted
add_row_bottom(f, pos, new_col) ==
    LET bottom == {i \in new_col : i > pos}
        c == f.ld.col[pos]
        rows == Ascending(RowSet(Tail(c)) \cup bottom)
    IN [f EXCEPT !.ld.col[pos] =
                    <<c[1]>> \o [k \in 1..Len(rows) |-> <<rows[k], <<"new", rows[k], pos>>>>],
                 !.ld.nnz_per_col[pos] = @ + Cardinality(bottom),
                 !.ld.nnz = @ + Cardinality(bottom),
                 !.failed = IF f.ld.nnz_per_col[pos] + Cardinality(bottom) > f.ld.cap[pos]
                            THEN @ \cup {"add_row: nz < capacity of column pos"}
                            ELSE @]
\* add_row: the pattern of column j after pos is merged into column pos
add_row_merge(f, pos, j) ==
    LET c == f.ld.col[pos]
        mg == merge_second_col_into_first(Tail(c), f.ld.cap[pos] - 1,
                                          RowSet(Tail(f.ld.col[j])), pos, pos)
    IN [f EXCEPT !.ld.col[pos] = <<c[1]>> \o mg.col,
                 !.ld.nnz_per_col[pos] = @ + Cardinality(mg.difference),
                 !.ld.nnz = @ + Cardinality(mg.difference),
                 !.failed = IF mg.fits THEN @
                            ELSE @ \cup {"merge_second_col_into_first: capacity"}]
\* the insertion that never makes pos the parent of the column
add_row_insert_keeps_parent(f, pos, j) ==
    LET c == f.ld.col[j]
        it == lower_bound(c, 1, pos)
    IN [f EXCEPT !.ld.col[j] = InsertAt(c, it, <<pos, <<"l12", pos, j>>>>),
                 !.ld.nnz_per_col[j] = @ + 1,
                 !.ld.nnz = @ + 1,
                 !.failed = IF f.ld.nnz_per_col[j] < f.ld.cap[j] THEN @
                            ELSE @ \cup {"add_row: pldnz[j] < capacity of column j"}]
\* add_row: row pos is inserted into column j of the pattern, under
\* VEG_ASSERT(pldnz[j] < capacity of the column); pos becomes the parent of
\* j when it is the first off-diagonal row
add_row_insert(f, pos, j) ==
    LET c == f.ld.col[j]
        it == lower_bound(c, 1, pos)
    IN [f EXCEPT !.ld.col[j] = InsertAt(c, it, <<pos, <<"l12", pos, j>>>>),
                 !.ld.nnz_per_col[j] = @ + 1,
                 !.ld.nnz = @ + 1,
                 !.etree[j] = IF it = 2 THEN pos ELSE @,
                 !.failed = IF f.ld.nnz_per_col[j] < f.ld.cap[j] THEN @
                            ELSE @ \cup {"add_row: pldnz[j] < capacity of column j"}]
RECURSIVE add_row_merges(_, _, _)
add_row_merges(f, pos, pattern) ==
    IF pattern = <<>> THEN f
    ELSE CHOOSE r \in { add_row_merges(g, pos, Tail(pattern))
                        : g \in {add_row_merge(f, pos, pattern[1])} } : TRUE
RECURSIVE add_row_inserts(_, _, _)
add_row_inserts(f, pos, pattern) ==
    IF pattern = <<>> THEN f
    ELSE CHOOSE r \in { add_row_inserts(g, pos, Tail(pattern))
                        : g \in {add_row_insert(f, pos, pattern[1])} } : TRUE
\* add_row: the values of column pos, and its parent when it has
\* off-diagonal entries
add_row_column(f, pos) ==
    LET c == f.ld.col[pos] IN
    [f EXCEPT !.ld.col[pos] =
                 <<<<pos, <<"diag", pos, pos>>>>>>
                 \o [k \in 1..(Len(c) - 1) |-> <<c[k + 1][1], <<"new", c[k + 1][1], pos>>>>],
              !.etree[pos] = IF f.ld.nnz_per_col[pos] > 1 THEN c[2][1] ELSE @]

\* sparse::add_row(ld, etree, perm_inv, pos, new_col, diag_element), new_col
\* given by its rows: VEG_ASSERT(pldnz[pos] == 1), the pattern of row pos,
\* the bottom of the new column, the merges, the insertions, column pos,
\* and the rank update with column pos.  The view that rank1_update returns
\* is dropped (`sparse::rank1_update(ld, ...);`) and `return ld;` hands back
\* the view from before the call: the rows, the counts of the columns and
\* the elimination tree are written through its pointers, nnz is held by
\* the view and stays what it was before the rank update
rowmod_add_row(f, pos, new_col) ==
    LET pattern == Ascending(l12_nnz_pattern(f.etree, {}, Ascending(new_col), pos))
        f0 == [f EXCEPT !.failed = IF f.ld.nnz_per_col[pos] = 1 THEN @
                                   ELSE @ \cup {"add_row: pldnz[pos] == 1"}]
    IN CHOOSE r \in
         { [rank1_update(f4, RowSet(Tail(f4.ld.col[pos]))) EXCEPT !.ld.nnz = f4.ld.nnz]
           : f4 \in { add_row_column(f3, pos)
                      : f3 \in { add_row_inserts(f2, pos, pattern)
                                 : f2 \in { add_row_merges(f1, pos, pattern)
                                            : f1 \in {add_row_bottom(f0, pos, new_col)} } } } }
         : TRUE

\* the pattern of L for the symmetric pattern K (a set of pairs {i, j}) on
\* the rows and columns in present, column by column: the entries of K
\* below the diagonal and the patterns of the children in the elimination
\* tree; the other rows and columns hold their diagonal only
RECURSIVE factorize_symbolic(_, _, _, _)
factorize_symbolic(structs, dim, K, present) ==
    LET j == Len(structs) + 1
        own == {i \in (j + 1)..dim : {i, j} \in K /\ i \in present /\ j \in present}
        kids == {c \in 1..(j - 1) :
                    structs[c] # {} /\ \A i \in structs[c] : j <= i /\ j \in structs[c]}
    IN IF j > dim THEN structs
       ELSE factorize_symbolic(
                Append(structs, own \cup UNION {structs[c] \ {j} : c \in kids}),
                dim, K, present)

\* a factorization whose columns are allocated for the rows and columns
\* present at the time, not for all of them
factorize_tight(dim, K, present) ==
    LET structs == factorize_symbolic(<<>>, dim, K, present)
        rows == [j \in 1..dim |-> Ascending(structs[j])]
    IN [ld |-> [cap |-> [j \in 1..dim |-> Cardinality(structs[j]) + 1] \o <<>>,
                nnz_per_col |-> [j \in 1..dim |-> Cardinality(structs[j]) + 1] \o <<>>,
                col |-> [j \in 1..dim |->
                           <<<<j, <<"d", j, j>>>>>>
                           \o [k \in 1..Len(rows[j]) |->
                                 <<rows[j][k], <<"l", rows[j][k], j>>>>]] \o <<>>,
                nnz |-> dim + Cardinality(UNION {{<<i, j>> : i \in structs[j]}
                                                 : j \in 1..dim})],
        etree |-> [j \in 1..dim |-> IF rows[j] = <<>> THEN -1 ELSE rows[j][1]] \o <<>>,
        failed |-> {}]
\* refactorize(): factorize_symbolic_non_zeros and factorize_numeric of the
\* rows and columns in present, in the storage whose capacities are those
\* of the pattern with every row and column present
factorize(dim, K, present) ==
    LET structs == factorize_symbolic(<<>>, dim, K, present)
        full == factorize_symbolic(<<>>, dim, K, 1..dim)
        rows == [j \in 1..dim |-> Ascending(structs[j])]
    IN [ld |-> [cap |-> [j \in 1..dim |-> Cardinality(full[j]) + 1] \o <<>>,
                nnz_per_col |-> [j \in 1..dim |-> Cardinality(structs[j]) + 1] \o <<>>,
                col |-> [j \in 1..dim |->
                           <<<<j, <<"d", j, j>>>>>>
                           \o [k \in 1..Len(rows[j]) |->
                                 <<rows[j][k], <<"l", rows[j][k], j>>>>]] \o <<>>,
                nnz |-> dim + Cardinality(UNION {{<<i, j>> : i \in structs[j]}
                                                 : j \in 1..dim})],
        etree |-> [j \in 1..dim |-> IF rows[j] = <<>> THEN -1 ELSE rows[j][1]] \o <<>>,
        failed |-> {}]

(***************************************************************************)
(* The factorization under the active-set sweeps of qp_solve                *)
(* (solver_sparse.hpp:1280-1338): sp is [pc, dim, K, toggles, active,      *)
(* todo, f, op, ops, sweeps].  The rows in toggles (the inequality rows)   *)
(* are added and deleted, K couples none of them.  A sweep computes the    *)
(* new active set, walks the inequality rows once, adding each row that    *)
(* became active and deleting each row that ceased to be, and ends with    *)
(* refactorize().  todo holds the rows of the running sweep that are still *)
(* to change.  Rows are named by their positions perm_inv[idx] in the      *)
(* factorization; the ordering is the one amd computes, so a sweep may     *)
(* meet the positions in any order.                                        *)
(***************************************************************************)
MaxSweeps == 2
RowmodDims == {3, 4}
\* the symmetric patterns on dim rows and the sets of rows that may toggle
RowmodInputs(dim) ==
    { <<K, toggles>> \in
        (SUBSET {{i, j} : <<i, j>> \in {q \in (1..dim) \X (1..dim) : q[1] < q[2]}})
        \X (SUBSET (1..dim)) :
        /\ toggles # {}
        /\ \A i \in toggles, j \in toggles : {i, j} \notin K }
present(s) == ((1..s.dim) \ s.toggles) \cup s.active
\* the column of kkt for row pos: its entries in K
new_col(s, pos) == {i \in 1..s.dim : {i, pos} \in s.K}

RowmodInit ==
    /\ sp \in UNION { { [pc |-> "sweep", dim |-> dim, K |-> in[1], toggles |-> in[2],
                         active |-> active, todo |-> {},
                         f |-> factorize(dim, in[1], ((1..dim) \ in[2]) \cup active),
                         op |-> <<"refactorize", 0>>, ops |-> 0, sweeps |-> 0]
                       : in \in RowmodInputs(dim), active \in SUBSET (1..dim) }
                     : dim \in RowmodDims }
    /\ sp.active \subseteq sp.toggles
    /\ ResultsIdle /\ ScaleIdle /\ UpdateIdle /\ DenseIdle

\* new_active_constraints = active_set_lo || active_set_up: the rows whose
\* activity changes in this sweep; a sweep that changes none leaves the
\* factorization alone
RowmodActiveSet ==
    /\ sp.pc = "sweep" /\ sp.sweeps < MaxSweeps
    /\ \E change \in SUBSET sp.toggles \ {{}} :
          sp' = [sp EXCEPT !.todo = change, !.sweeps = @ + 1, !.pc = "rows"]
    /\ SparseFrame

\* is_active && !was_active
RowmodAddRow ==
    /\ sp.pc = "rows"
    /\ \E pos \in sp.todo \ sp.active :
          sp' = [sp EXCEPT !.f = rowmod_add_row(sp.f, pos, new_col(sp, pos)),
                           !.active = @ \cup {pos}, !.todo = @ \ {pos},
                           !.op = <<"add_row", pos>>, !.ops = @ + 1]
    /\ SparseFrame

\* !is_active && was_active
RowmodDeleteRow ==
    /\ sp.pc = "rows"
    /\ \E pos \in sp.todo \cap sp.active :
          sp' = [sp EXCEPT !.f = rowmod_delete_row(sp.f, pos),
                           !.active = @ \ {pos}, !.todo = @ \ {pos},
                           !.op = <<"delete_row", pos>>, !.ops = @ + 1]
    /\ SparseFrame

\* the end of the walk: if (added || removed) refactorize()
RowmodRefactorize ==
    /\ sp.pc = "rows" /\ sp.todo = {}
    /\ sp' = [sp EXCEPT !.f = [factorize(sp.dim, sp.K, present(sp))
                                 EXCEPT !.failed = sp.f.failed],
                        !.op = <<"refactorize", 0>>, !.pc = "sweep"]
    /\ SparseFrame

RowmodNext == RowmodActiveSet \/ RowmodAddRow \/ RowmodDeleteRow \/ RowmodRefactorize

SpecRowmod == RowmodInit /\ [][RowmodNext]_vars


\* a step of SpecRowmod that is a call of delete_row, of add_row
DeleteRowCall == sp'.ops = sp.ops + 1 /\ sp'.op[1] = "delete_row"
AddRowCall == sp'.ops = sp.ops + 1 /\ sp'.op[1] = "add_row"
PositionOf(c, row) == CHOOSE k \in 1..Len(c) : c[k][1] = row

\* C27: after delete_row at pos no column before pos holds row pos; a
\* column that held it has lost that one entry, the others in their order
\* and one off its count; a column that did not is unchanged; column pos
\* holds its diagonal alone, of value 1, nnz_per_col[pos] = 1 and
\* etree[pos] = -1
C27_DeleteRowPostcondition ==
    [][DeleteRowCall =>
         LET pos == sp'.op[2] IN
         /\ \A j \in 1..(pos - 1) :
               /\ pos \notin RowSet(sp'.f.ld.col[j])
               /\ pos \in RowSet(sp.f.ld.col[j]) =>
                     /\ sp'.f.ld.col[j] =
                           RemoveAt(sp.f.ld.col[j], PositionOf(sp.f.ld.col[j], pos))
                     /\ sp'.f.ld.nnz_per_col[j] = sp.f.ld.nnz_per_col[j] - 1
               /\ pos \notin RowSet(sp.f.ld.col[j]) =>
                     /\ sp'.f.ld.col[j] = sp.f.ld.col[j]
                     /\ sp'.f.ld.nnz_per_col[j] = sp.f.ld.nnz_per_col[j]
                     /\ sp'.f.etree[j] = sp.f.etree[j]
         /\ sp'.f.ld.col[pos] = <<<<pos, <<"one", pos, pos>>>>>>
         /\ sp'.f.ld.nnz_per_col[pos] = 1
         /\ sp'.f.etree[pos] = -1]_vars
\* after the deletion of a row that K couples to an earlier column which
\* keeps other entries, and to a later one
C27_Witness ==
    /\ sp.pc \in {"sweep", "rows"} /\ sp.op[1] = "delete_row"
    /\ \E j \in 1..(sp.op[2] - 1) :
          /\ {j, sp.op[2]} \in sp.K
          /\ sp.f.ld.nnz_per_col[j] > 1
          /\ sp.op[2] \notin RowSet(sp.f.ld.col[j])
    /\ \E i \in (sp.op[2] + 1)..sp.dim : {i, sp.op[2]} \in sp.K
    /\ sp.f.ld.col[sp.op[2]] = <<<<sp.op[2], <<"one", sp.op[2], sp.op[2]>>>>>>

\* C28: in the row operations of the solver no assertion of add_row fails:
\* the column of an added row holds its diagonal alone, and every entry
\* inserted into a column finds its count below the capacity
\* col_ptrs[j + 1] - col_ptrs[j] of the symbolic analysis
C28_AddRowPreconditions == sp.pc \in {"sweep", "rows"} => sp.f.failed = {}
\* a row added back after a deletion, into a column that is now full
C28_Witness ==
    /\ sp.pc \in {"sweep", "rows"} /\ sp.op[1] = "add_row" /\ sp.ops >= 2
    /\ sp.f.failed = {}
    /\ \E j \in 1..sp.dim :
          /\ j # sp.op[2] /\ sp.op[2] \in RowSet(sp.f.ld.col[j])
          /\ sp.f.ld.nnz_per_col[j] = sp.f.ld.cap[j]
    /\ sp.f.ld.nnz_per_col[sp.op[2]] = sp.f.ld.cap[sp.op[2]]
    /\ sp.f.ld.nnz_per_col[sp.op[2]] > 1

\* etree[j] is the row of the first off-diagonal entry of column j, or -1
EtreeConsistent(f) ==
    \A j \in 1..Len(f.etree) :
        f.etree[j] = IF f.ld.nnz_per_col[j] > 1 THEN f.ld.col[j][2][1] ELSE -1
\* C29: add_row and delete_row keep the elimination tree consistent with
\* the columns of L
C29_EtreeConsistency ==
    [][(DeleteRowCall \/ AddRowCall) =>
         (EtreeConsistent(sp.f) => EtreeConsistent(sp'.f))]_vars
\* an added row that became the parent of an earlier column and has a
\* parent itself, and a deleted row whose child went on to a later parent
C29_Witness ==
    /\ sp.pc \in {"sweep", "rows"} /\ EtreeConsistent(sp.f)
    /\ \/ /\ sp.op[1] = "add_row"
          /\ \E j \in 1..(sp.op[2] - 1) : sp.f.etree[j] = sp.op[2]
          /\ sp.f.etree[sp.op[2]] > sp.op[2]
       \/ /\ sp.op[1] = "delete_row"
          /\ \E j \in 1..(sp.op[2] - 1) :
                {j, sp.op[2]} \in sp.K /\ sp.f.etree[j] > sp.op[2]

RECURSIVE SumOf(_)
SumOf(counts) == IF counts = <<>> THEN 0 ELSE counts[1] + SumOf(Tail(counts))
\* C30: ld.nnz() is the sum of nnz_per_col over the columns, after add_row
\* and after delete_row
C30_NnzCoherence ==
    sp.pc \in {"sweep", "rows"} => sp.f.ld.nnz = SumOf(sp.f.ld.nnz_per_col)
\* the counts of kkt_active in qp_solve: nnz() is the sum of the counts of
\* the columns, between nnz(H) + nnz(A) and nnz(H) + nnz(A) + nnz(C)
C30_KktNnzCoherence ==
    (InSolve /\ sp.pc # "unscaled") =>
        LET fixed == Cardinality(DOMAIN sp.qp_scaled.H.e)
                     + Cardinality(DOMAIN sp.qp_scaled.AT.e)
        IN /\ sp.kkt_active_nnz = fixed + SumOf(sp.kkt_nnz_counts)
           /\ fixed <= sp.kkt_active_nnz
           /\ sp.kkt_active_nnz <= fixed + Cardinality(DOMAIN sp.qp_scaled.CT.e)

====
